---- MODULE Spec2Model ----
(***************************************************************************)
(* A model of the Paranoid brick-breaker: src/assets.py (balls, paddles,   *)
(* bricks, icons, bullets) and src/src/paranoid/levels.py (the Level view  *)
(* and the views that forward to it).                                      *)
(*                                                                         *)
(* Sprite geometry lives in the arcade library and in the image assets,    *)
(* neither of which is part of the sources.  What the library computes     *)
(* from it -- the list returned by collides_with_list, the boolean         *)
(* returned by collides_with_sprite, the displacement of a sprite in one   *)
(* frame -- is an input of the operation that asks for it, drawn from a    *)
(* bounded set.  Everything the sources compute from those answers is      *)
(* computed here the same way.                                             *)
(*                                                                         *)
(* Every method is an operator from a world record (all objects of one     *)
(* Level and its window) to a world record; an action applies a handler    *)
(* to the current world and commits the result.                            *)
(***************************************************************************)
EXTENDS Integers, Sequences, FiniteSets, TLC

VARIABLES window, level, paddle, balls, ball_list, bricks, brick_list,
          breakable_brick_list, icon_list, bullet_list, calls

vars == <<window, level, paddle, balls, ball_list, bricks, brick_list,
          breakable_brick_list, icon_list, bullet_list, calls>>

(***************************************************************************)
(* Bounds of the model                                                     *)
(***************************************************************************)
\* longest hit list a collision query returns
MaxHits == 2
\* most ball objects alive at once (splits beyond it are not explored)
MaxBalls == 2
\* bullets in flight at once
MaxBullets == 1

(***************************************************************************)
(* Program constants                                                       *)
(***************************************************************************)
\* DEBUGGING of assets.py
DEBUGGING == FALSE
BALL_MIN_SPEED == 550
BALL_MAX_SPEED == BALL_MIN_SPEED + 300
SCREEN_WIDTH == 1536
SCREEN_HEIGHT == 864
SCREEN_PADDING == 10
BOUNDARY_THICKNESS == 25
PLAYING_FIELD_WIDTH == 1080
BRICK_WIDTH == 75
BRICK_HEIGHT == 25
BRICK_MARGIN == 2
PAUSE_TIME == 3
TRANSITION_TIME == 1

\* Boundary.__init__: the inner edges of the playing field
boundary == [center_x     |-> SCREEN_PADDING + BOUNDARY_THICKNESS + PLAYING_FIELD_WIDTH \div 2,
             inner_left   |-> SCREEN_PADDING + BOUNDARY_THICKNESS,
             inner_right  |-> SCREEN_PADDING + BOUNDARY_THICKNESS + PLAYING_FIELD_WIDTH,
             inner_bottom |-> SCREEN_PADDING + BOUNDARY_THICKNESS,
             inner_top    |-> SCREEN_HEIGHT - (SCREEN_PADDING + BOUNDARY_THICKNESS),
             is_fullscreen |-> FALSE]

\* FullscreenBoundary.populate_border_list: the boundary of a fullscreen view
FullscreenBoundary == [boundary EXCEPT !.center_x = SCREEN_WIDTH \div 2,
                                       !.inner_right = SCREEN_WIDTH - boundary.inner_left,
                                       !.is_fullscreen = TRUE]

\* the boundary given to a ball: the balls of a level are in the playing
\* field, the balls without a level are those of the fullscreen views
boundary_of(has_level) == IF has_level THEN boundary ELSE FullscreenBoundary

(***************************************************************************)
(* Helpers                                                                 *)
(***************************************************************************)
Range(s) == {s[k] : k \in 1..Len(s)}

RECURSIVE SeqRemove(_, _)
\* list.remove(x): drops the first occurrence of x
SeqRemove(s, x) ==
  IF s = <<>> THEN <<>>
  ELSE IF Head(s) = x THEN Tail(s)
  ELSE <<Head(s)>> \o SeqRemove(Tail(s), x)

\* sequences of distinct elements of S, of length at most n
RECURSIVE DistinctSeqs(_, _)
DistinctSeqs(S, n) ==
  IF n = 0 THEN {<<>>}
  ELSE {<<>>} \cup UNION {{<<x>> \o t : t \in DistinctSeqs(S \ {x}, n - 1)} : x \in S}

\* int(): truncation toward zero of n / d, d > 0
TruncDiv(n, d) == IF n >= 0 THEN n \div d ELSE -((-n) \div d)


Min(S) == CHOOSE x \in S : \A y \in S : x <= y

(***************************************************************************)
(* Trigonometry in integers.  math.sin of an angle given in degrees, times *)
(* 1000, by Bhaskara's rational approximation on [0, 180] and symmetry.    *)
(***************************************************************************)
SinHalf1000(x) == (4000 * x * (180 - x)) \div (40500 - x * (180 - x))
Sin1000(a) == LET n == a % 360
              IN IF n <= 180 THEN SinHalf1000(n) ELSE -SinHalf1000(n - 180)
Cos1000(a) == Sin1000(a + 90)

(***************************************************************************)
(* Sprites.  The width and height of a sprite are those of its texture;    *)
(* the image files are not part of the sources, so the sizes below stand   *)
(* for them (even numbers, so that edges are whole pixels).                *)
(***************************************************************************)
BallClasses == {"NormalBall", "InvinciBall", "MagneticNormalBall", "MagneticInviciBall"}
PaddleClasses == {"ShortPaddle", "NormalPaddle", "LongPaddle"}

width(class) == CASE class \in BallClasses -> 20
                  [] class = "ShortPaddle" -> 60
                  [] class = "NormalPaddle" -> 100
                  [] class = "LongPaddle" -> 200
height(class) == CASE class \in BallClasses -> 20
                   [] class \in PaddleClasses -> 20

\* the edges of a ball or paddle, from its centre
left(s) == s.center_x - width(s.class) \div 2
right(s) == s.center_x + width(s.class) \div 2
top(s) == s.center_y + height(s.class) \div 2
bottom(s) == s.center_y - height(s.class) \div 2
\* the setters of the edges move the centre
set_left(s, v) == [s EXCEPT !.center_x = v + width(s.class) \div 2]
set_right(s, v) == [s EXCEPT !.center_x = v - width(s.class) \div 2]
set_top(s, v) == [s EXCEPT !.center_y = v - height(s.class) \div 2]
set_bottom(s, v) == [s EXCEPT !.center_y = v + height(s.class) \div 2]

(***************************************************************************)
(* Balls                                                                   *)
(***************************************************************************)
\* initialize_texture: the invincible classes override is_invincible
is_invincible(class) == class \in {"InvinciBall", "MagneticInviciBall"}
is_magnetic_ball(class) == class \in {"MagneticNormalBall", "MagneticInviciBall"}

\* Ball.set_velocity without the limits on the speed
set_velocity_unlimited(b) ==
  [b EXCEPT !.change_x = IF b.velocity_angle \in {90, -90} THEN 1
                         ELSE TruncDiv(b.ball_speed * Cos1000(b.velocity_angle), 1000),
            !.change_y = TruncDiv(b.ball_speed * Sin1000(b.velocity_angle), 1000)]

\* Ball.set_velocity.  math.cos(math.radians(-90)) is a positive double
\* (6.1e-17), so a ball sent straight down has a change_x > 0: the model
\* keeps that sign with the smallest positive integer.
set_velocity(b) ==
  LET speed == IF b.ball_speed > BALL_MAX_SPEED THEN BALL_MAX_SPEED
               ELSE IF b.ball_speed < BALL_MIN_SPEED THEN BALL_MIN_SPEED
               ELSE b.ball_speed
  IN [b EXCEPT !.ball_speed = speed,
               !.change_x = IF b.velocity_angle \in {90, -90} THEN 1
                            ELSE TruncDiv(speed * Cos1000(b.velocity_angle), 1000),
               !.change_y = TruncDiv(speed * Sin1000(b.velocity_angle), 1000)]

\* Ball.__init__: a new ball of a class; has_level is "level is not None"
Ball(class, has_level) ==
  set_velocity([class |-> class, level |-> has_level,
                center_x |-> boundary_of(has_level).center_x,
                center_y |-> boundary_of(has_level).inner_bottom + 80,
                velocity_angle |-> 45, ball_speed |-> BALL_MIN_SPEED,
                change_x |-> 0, change_y |-> 0])

(***************************************************************************)
(* Bricks                                                                  *)
(***************************************************************************)
BonusBrickClasses == {"BonusBBrick", "BonusOBrick", "BonusNBrick", "BonusUBrick", "BonusSBrick"}

\* initialize_textures of each brick class: the number of textures
ntextures(class) == CASE class = "PinkBrick2" -> 2
                      [] class = "MultiColouredBrick4" -> 4
                      [] class = "MultiColouredBrick3" -> 3
                      [] class = "MultiColouredBrick2" -> 2
                      [] OTHER -> 1
\* ... and the score
brick_score(class) == CASE class \in {"RedBrick", "BlueBrick", "GreenBrick", "AquaBrick", "GreyBrick"} -> 100
                        [] class = "RedLineBrick" -> 150
                        [] class \in {"PinkBrick2", "PinkBrick1", "MultiColouredBrick4",
                                      "MultiColouredBrick3", "MultiColouredBrick2",
                                      "MultiColouredBrick1"} -> 200
                        [] class = "UKFlagBrick" -> 250
                        [] class = "NormalWallBrick" -> 50
                        [] class \in BonusBrickClasses -> 100
                        [] OTHER -> 0
\* ... and the bonus letter
brick_letter(class) == CASE class = "BonusBBrick" -> "B"
                         [] class = "BonusOBrick" -> "O"
                         [] class = "BonusNBrick" -> "N"
                         [] class = "BonusUBrick" -> "U"
                         [] class = "BonusSBrick" -> "S"
                         [] OTHER -> ""

\* Brick.__init__ followed by Level.initialize_bricks_and_icons: the brick of
\* a class in a cell of the grid, with the icon attached to it ("None": none)
Brick(class, row_number, column_number, icon) ==
  LET l == boundary.inner_left + BRICK_MARGIN + (BRICK_MARGIN + BRICK_WIDTH) * column_number
      t == boundary.inner_top - BRICK_MARGIN - (BRICK_MARGIN + BRICK_HEIGHT) * row_number
  IN [class |-> class,
      is_breakable |-> class # "UnbreakableBrick",
      has_been_hit |-> FALSE,
      is_safety_barrier |-> FALSE,
      cur_texture_index |-> 0,
      score |-> brick_score(class),
      letter |-> brick_letter(class),
      icon |-> icon,
      left |-> l, right |-> l + BRICK_WIDTH, top |-> t, bottom |-> t - BRICK_HEIGHT]

\* SafetyBarrier.__init__: a solid-colour sprite 1080 x 2 (one texture) just
\* above the bottom of the field
SafetyBarrier ==
  [class |-> "SafetyBarrier",
   is_breakable |-> TRUE,
   has_been_hit |-> FALSE,
   is_safety_barrier |-> TRUE,
   cur_texture_index |-> 0,
   score |-> 0,
   letter |-> "",
   icon |-> "None",
   left |-> boundary.center_x - PLAYING_FIELD_WIDTH \div 2,
   right |-> boundary.center_x + PLAYING_FIELD_WIDTH \div 2,
   top |-> boundary.inner_bottom + 7 + 1,
   bottom |-> boundary.inner_bottom + 7 - 1]

\* Sprite.remove_from_sprite_lists of a brick
remove_brick(w, b) ==
  [w EXCEPT !.brick_list = @ \ {b}, !.breakable_brick_list = @ \ {b}]

\* Brick.update without the two collision queries
update_whatever_overlaps(w, b, hits_ball, hits_bullet) ==
  LET w0 == [w EXCEPT !.calls = IF hits_ball \/ hits_bullet
                                THEN @ \o <<<<"Brick.update", b>>, <<"collides_with_list", b>>>>
                                ELSE Append(@, <<"Brick.update", b>>)]
  IN [w0 EXCEPT !.bricks[b].has_been_hit = FALSE]

\* Brick.update; hits_ball and hits_bullet are the answers of the two
\* collides_with_list queries (level.ball_list, level.bullet_list)
Brick_update(w, b, hits_ball, hits_bullet) ==
  LET w0 == [w EXCEPT !.calls = IF hits_ball \/ hits_bullet
                                THEN @ \o <<<<"Brick.update", b>>, <<"collides_with_list", b>>>>
                                ELSE Append(@, <<"Brick.update", b>>)]
  IN IF w.bricks[b].has_been_hit /\ ~hits_ball /\ ~hits_bullet
     THEN [w0 EXCEPT !.bricks[b].has_been_hit = FALSE]
     ELSE w0

\* the effect of a hit on a brick, whatever its latch and its kind
award(w, b) ==
  LET br == w.bricks[b]
      idx == br.cur_texture_index + 1
      w1 == [w EXCEPT !.bricks[b].has_been_hit = TRUE,
                      !.bricks[b].cur_texture_index = idx]
      w2 == IF idx < ntextures(br.class) THEN w1 ELSE remove_brick(w1, b)
      w3 == [w2 EXCEPT !.window.score = @ + br.score,
                       !.calls = Append(@, <<"window.score +=", b>>)]
      w4 == IF br.letter # ""
            THEN [w3 EXCEPT !.level.bonus_collection_order = Append(@, br.letter)]
            ELSE w3
  IN IF br.icon # "None"
     THEN [w4 EXCEPT !.icon_list = Append(@, br.icon), !.bricks[b].icon = "None"]
     ELSE w4

\* Brick.change_properties without the has_been_hit latch
change_properties_unlatched(w, b) ==
  LET w0 == [w EXCEPT !.calls = Append(@, <<"Brick.change_properties", b>>)]
  IN IF w.bricks[b].is_breakable THEN award(w0, b) ELSE w0

\* Brick.change_properties without the is_breakable test
change_properties_of_any_kind(w, b) ==
  LET w0 == [w EXCEPT !.calls = Append(@, <<"Brick.change_properties", b>>)]
  IN IF ~w.bricks[b].has_been_hit THEN award(w0, b) ELSE w0

\* Brick.change_properties that keeps the icon until the brick is removed
change_properties_releasing_last(w, b) ==
  LET br == w.bricks[b]
      w0 == [w EXCEPT !.calls = Append(@, <<"Brick.change_properties", b>>)]
  IN IF br.is_breakable /\ ~br.has_been_hit
     THEN LET idx == br.cur_texture_index + 1
              w1 == [w0 EXCEPT !.bricks[b].has_been_hit = TRUE,
                               !.bricks[b].cur_texture_index = idx]
              w2 == IF idx < ntextures(br.class) THEN w1 ELSE remove_brick(w1, b)
              w3 == [w2 EXCEPT !.window.score = @ + br.score,
                               !.calls = Append(@, <<"window.score +=", b>>)]
              w4 == IF br.letter # ""
                    THEN [w3 EXCEPT !.level.bonus_collection_order = Append(@, br.letter)]
                    ELSE w3
          IN IF br.icon # "None" /\ ~(idx < ntextures(br.class))
             THEN [w4 EXCEPT !.icon_list = Append(@, br.icon), !.bricks[b].icon = "None"]
             ELSE w4
     ELSE w0

\* Brick.change_properties
Brick_change_properties(w, b) ==
  LET br == w.bricks[b]
      w0 == [w EXCEPT !.calls = Append(@, <<"Brick.change_properties", b>>)]
  IN IF br.is_breakable /\ ~br.has_been_hit
     THEN LET idx == br.cur_texture_index + 1
              w1 == [w0 EXCEPT !.bricks[b].has_been_hit = TRUE,
                               !.bricks[b].cur_texture_index = idx]
              w2 == IF idx < ntextures(br.class) THEN w1 ELSE remove_brick(w1, b)
              w3 == [w2 EXCEPT !.window.score = @ + br.score,
                               !.calls = Append(@, <<"window.score +=", b>>)]
              w4 == IF br.letter # ""
                    THEN [w3 EXCEPT !.level.bonus_collection_order = Append(@, br.letter)]
                    ELSE w3
          IN IF br.icon # "None"
             THEN [w4 EXCEPT !.icon_list = Append(@, br.icon), !.bricks[b].icon = "None"]
             ELSE w4
     ELSE w0

\* "for brick in hit_list: brick.change_properties()"
RECURSIVE change_properties_of_all(_, _)
change_properties_of_all(w, hit_list) ==
  IF hit_list = <<>> THEN w
  ELSE change_properties_of_all(Brick_change_properties(w, Head(hit_list)), Tail(hit_list))


(***************************************************************************)
(* Ball against bricks.  i names a ball object, hit_list is the answer of  *)
(* collides_with_list(self.brick_list).                                    *)
(***************************************************************************)
\* Ball.collides_with_brick_moving_horizontally turning at every brick of
\* the hit list
turns_at_every_brick(w, i, hit_list) ==
  IF hit_list = <<>> THEN w
  ELSE LET ball == w.balls[i]
           brick == w.bricks[hit_list[1]]
           turned == IF Len(hit_list) % 2 = 1 THEN -ball.change_x ELSE ball.change_x
           w1 == IF ~brick.is_safety_barrier
                 THEN [w EXCEPT !.balls[i] =
                         [(IF ball.change_x > 0 THEN set_right(ball, brick.left)
                                                ELSE set_left(ball, brick.right))
                            EXCEPT !.change_x = turned]]
                 ELSE w
       IN IF ball.level THEN change_properties_of_all(w1, hit_list) ELSE w1

\* Ball.collides_with_brick_moving_horizontally
Ball_collides_with_brick_moving_horizontally(w, i, hit_list) ==
  IF hit_list = <<>> THEN w
  ELSE LET ball == w.balls[i]
           brick == w.bricks[hit_list[1]]
           w1 == IF ~brick.is_safety_barrier
                 THEN [w EXCEPT !.balls[i] =
                         [(IF ball.change_x > 0 THEN set_right(ball, brick.left)
                                                ELSE set_left(ball, brick.right))
                            EXCEPT !.change_x = -ball.change_x]]
                 ELSE w
       IN IF ball.level THEN change_properties_of_all(w1, hit_list) ELSE w1

\* Ball.collides_with_brick_moving_vertically
Ball_collides_with_brick_moving_vertically(w, i, hit_list) ==
  IF hit_list = <<>> THEN w
  ELSE LET ball == w.balls[i]
           brick == w.bricks[hit_list[1]]
           w1 == [w EXCEPT !.balls[i] =
                    [(IF ball.change_y > 0 THEN set_top(ball, brick.bottom)
                                           ELSE set_bottom(ball, brick.top))
                       EXCEPT !.change_y = -ball.change_y]]
       IN IF ball.level THEN change_properties_of_all(w1, hit_list) ELSE w1

\* InvinciBall.collides_with_brick_moving_horizontally
InvinciBall_collides_with_brick_moving_horizontally(w, i, hit_list) ==
  LET ball == w.balls[i]
      stops == {k \in 1..Len(hit_list) :
                  ~w.bricks[hit_list[k]].is_breakable /\ ~w.bricks[hit_list[k]].is_safety_barrier}
      w1 == IF stops = {} THEN w
            ELSE LET brick == w.bricks[hit_list[Min(stops)]]
                 IN [w EXCEPT !.balls[i] =
                       [(IF ball.change_x > 0 THEN set_right(ball, brick.left)
                                              ELSE set_left(ball, brick.right))
                          EXCEPT !.change_x = -ball.change_x]]
  IN IF ball.level THEN change_properties_of_all(w1, hit_list) ELSE w1

\* InvinciBall.collides_with_brick_moving_vertically turning at the first
\* brick of the hit list, breakable or not
turns_at_first_brick(w, i, hit_list) ==
  IF hit_list = <<>> THEN w
  ELSE LET ball == w.balls[i]
           brick == w.bricks[hit_list[1]]
           w1 == [w EXCEPT !.balls[i] =
                    [(IF ball.change_y > 0 THEN set_top(ball, brick.bottom)
                                           ELSE set_bottom(ball, brick.top))
                       EXCEPT !.change_y = -ball.change_y]]
       IN IF ball.level THEN change_properties_of_all(w1, hit_list) ELSE w1

\* InvinciBall.collides_with_brick_moving_vertically turning at unbreakable
\* bricks only, as the horizontal pass does
turns_at_unbreakable_only(w, i, hit_list) ==
  LET ball == w.balls[i]
      stops == {k \in 1..Len(hit_list) :
                  ~w.bricks[hit_list[k]].is_breakable /\ ~w.bricks[hit_list[k]].is_safety_barrier}
      w1 == IF stops = {} THEN w
            ELSE LET brick == w.bricks[hit_list[Min(stops)]]
                 IN [w EXCEPT !.balls[i] =
                       [(IF ball.change_y > 0 THEN set_top(ball, brick.bottom)
                                              ELSE set_bottom(ball, brick.top))
                          EXCEPT !.change_y = -ball.change_y]]
  IN IF ball.level THEN change_properties_of_all(w1, hit_list) ELSE w1

\* InvinciBall.collides_with_brick_moving_vertically
InvinciBall_collides_with_brick_moving_vertically(w, i, hit_list) ==
  LET ball == w.balls[i]
      stops == {k \in 1..Len(hit_list) :
                  ~w.bricks[hit_list[k]].is_breakable \/ w.bricks[hit_list[k]].is_safety_barrier}
      w1 == IF stops = {} THEN w
            ELSE LET brick == w.bricks[hit_list[Min(stops)]]
                 IN [w EXCEPT !.balls[i] =
                       [(IF ball.change_y > 0 THEN set_top(ball, brick.bottom)
                                              ELSE set_bottom(ball, brick.top))
                          EXCEPT !.change_y = -ball.change_y]]
  IN IF ball.level THEN change_properties_of_all(w1, hit_list) ELSE w1

\* method resolution: InvinciBall overrides the two brick methods;
\* MagneticInviciBall derives from MagneticNormalBall and does not
collides_with_brick_moving_horizontally(w, i, hit_list) ==
  IF w.balls[i].class = "InvinciBall"
  THEN InvinciBall_collides_with_brick_moving_horizontally(w, i, hit_list)
  ELSE Ball_collides_with_brick_moving_horizontally(w, i, hit_list)

collides_with_brick_moving_vertically(w, i, hit_list) ==
  IF w.balls[i].class = "InvinciBall"
  THEN InvinciBall_collides_with_brick_moving_vertically(w, i, hit_list)
  ELSE Ball_collides_with_brick_moving_vertically(w, i, hit_list)

(***************************************************************************)
(* The world: every object reachable from one Level                        *)
(***************************************************************************)
World == [window |-> window, level |-> level, paddle |-> paddle, balls |-> balls,
          ball_list |-> ball_list, bricks |-> bricks, brick_list |-> brick_list,
          breakable_brick_list |-> breakable_brick_list, icon_list |-> icon_list,
          bullet_list |-> bullet_list, calls |-> <<>>]

\* Ball objects that neither level.ball_list nor paddle.magnetic_ball_list
\* refers to are garbage: the balls a handler leaves behind are named anew,
\* in the order of ball_list, then of the balls that only
\* magnetic_ball_list still refers to
RECURSIVE without_repeats(_)
without_repeats(s) ==
  IF s = <<>> THEN <<>>
  ELSE LET r == without_repeats(SubSeq(s, 1, Len(s) - 1))
       IN IF s[Len(s)] \in Range(r) THEN r ELSE Append(r, s[Len(s)])

live_balls(w) == without_repeats(w.ball_list \o w.paddle.magnetic_ball_list)

name_of(order, i) == CHOOSE n \in 1..Len(order) : order[n] = i

collect(w) ==
  LET order == live_balls(w)
  IN [w EXCEPT !.balls = [n \in 1..Len(order) |-> w.balls[order[n]]],
               !.ball_list = [k \in 1..Len(w.ball_list) |-> name_of(order, w.ball_list[k])],
               !.paddle.magnetic_ball_list =
                  [k \in 1..Len(w.paddle.magnetic_ball_list) |->
                     name_of(order, w.paddle.magnetic_ball_list[k])]]

\* the state after a handler that leaves the world w
Commit(w) ==
  /\ window' = w.window
  /\ level' = w.level
  /\ paddle' = collect(w).paddle
  /\ balls' = collect(w).balls
  /\ ball_list' = collect(w).ball_list
  /\ bricks' = w.bricks
  /\ brick_list' = w.brick_list
  /\ breakable_brick_list' = w.breakable_brick_list
  /\ icon_list' = w.icon_list
  /\ bullet_list' = w.bullet_list
  /\ calls' = w.calls

\* the answers collides_with_list(brick_list) can give
HitLists(w) == DistinctSeqs(w.brick_list, MaxHits)


(***************************************************************************)
(* Ball against the boundary                                               *)
(***************************************************************************)
\* Sprite.remove_from_sprite_lists of a ball (level.ball_list is the only
\* sprite list that holds balls; paddle.magnetic_ball_list is a plain list)
remove_ball(w, i) == [w EXCEPT !.ball_list = SeqRemove(@, i)]

\* a side wall that stops the ball without turning it
stops_at_side_walls(w, i) ==
  LET ball == w.balls[i]
      bd == boundary_of(ball.level)
  IN IF right(ball) > bd.inner_right
     THEN [w EXCEPT !.balls[i] = set_right(ball, bd.inner_right)]
     ELSE IF left(ball) < bd.inner_left
     THEN [w EXCEPT !.balls[i] = set_left(ball, bd.inner_left)]
     ELSE w

\* Ball.collides_with_boundary_moving_horizontally
collides_with_boundary_moving_horizontally(w, i) ==
  LET ball == w.balls[i]
      bd == boundary_of(ball.level)
  IN IF right(ball) > bd.inner_right
     THEN [w EXCEPT !.balls[i] = [set_right(ball, bd.inner_right)
                                    EXCEPT !.change_x = -ball.change_x]]
     ELSE IF left(ball) < bd.inner_left
     THEN [w EXCEPT !.balls[i] = [set_left(ball, bd.inner_left)
                                    EXCEPT !.change_x = -ball.change_x]]
     ELSE w

\* a bottom that turns every ball back, whatever the boundary
bounces_at_every_bottom(w, i) ==
  LET ball == w.balls[i]
      bd == boundary_of(ball.level)
  IN IF top(ball) > bd.inner_top
     THEN [w EXCEPT !.balls[i] = [set_top(ball, bd.inner_top)
                                    EXCEPT !.change_y = -ball.change_y]]
     ELSE IF bottom(ball) < bd.inner_bottom
     THEN [w EXCEPT !.balls[i] = [set_bottom(ball, bd.inner_bottom)
                                    EXCEPT !.change_y = -ball.change_y]]
     ELSE w

\* Ball.collides_with_boundary_moving_vertically
collides_with_boundary_moving_vertically(w, i) ==
  LET ball == w.balls[i]
      bd == boundary_of(ball.level)
  IN IF top(ball) > bd.inner_top
     THEN [w EXCEPT !.balls[i] = [set_top(ball, bd.inner_top)
                                    EXCEPT !.change_y = -ball.change_y]]
     ELSE IF (DEBUGGING \/ bd.is_fullscreen) /\ bottom(ball) < bd.inner_bottom
     THEN [w EXCEPT !.balls[i] = [set_bottom(ball, bd.inner_bottom)
                                    EXCEPT !.change_y = -ball.change_y]]
     ELSE IF top(ball) < bd.inner_bottom
     THEN remove_ball(w, i)
     ELSE w

(***************************************************************************)
(* Ball against the paddle                                                 *)
(***************************************************************************)
\* a bounce with another middle part of the paddle, another highest angle,
\* or a middle that sends every ball to the right
bounce_with(w, i, middle, highest_angle, to_the_right) ==
  LET ball == w.balls[i]
      difference == ball.center_x - left(w.paddle)
      wd == width(w.paddle.class)
      hit == IF difference < wd \div 2 - middle \div 2
             THEN LET angle == 25 + difference
                  IN [ball EXCEPT
                        !.velocity_angle = 180 - (IF angle > highest_angle THEN highest_angle ELSE angle),
                        !.ball_speed = @ + 40 - difference]
             ELSE IF difference <= wd \div 2 + middle \div 2
             THEN [ball EXCEPT
                     !.velocity_angle = IF ball.change_x > 0 \/ to_the_right THEN 55 ELSE 180 - 55,
                     !.ball_speed = @ - 20]
             ELSE LET angle == wd - difference + 25
                  IN [ball EXCEPT
                        !.velocity_angle = IF angle > highest_angle THEN highest_angle ELSE angle,
                        !.ball_speed = @ + difference - wd + 40]
  IN [w EXCEPT !.balls[i] = set_velocity(hit)]

change_velocity_up_to_80(w, i) == bounce_with(w, i, 20, 80, FALSE)
change_velocity_to_the_right(w, i) == bounce_with(w, i, 20, 70, TRUE)
change_velocity_with_middle_10(w, i) == bounce_with(w, i, 10, 70, FALSE)

\* Ball.change_velocity
change_velocity(w, i) ==
  LET ball == w.balls[i]
      difference == ball.center_x - left(w.paddle)
      wd == width(w.paddle.class)
      middle == 20
      lowest_angle == 25
      highest_angle == 70
      highest_speed == 40
      hit == IF difference < wd \div 2 - middle \div 2
             THEN LET angle == lowest_angle + difference
                  IN [ball EXCEPT
                        !.velocity_angle = 180 - (IF angle > highest_angle THEN highest_angle ELSE angle),
                        !.ball_speed = @ + highest_speed - difference]
             ELSE IF difference <= wd \div 2 + middle \div 2
             THEN [ball EXCEPT
                     !.velocity_angle = IF ball.change_x > 0 THEN 55 ELSE 180 - 55,
                     !.ball_speed = @ - 20]
             ELSE LET angle == wd - difference + lowest_angle
                  IN [ball EXCEPT
                        !.velocity_angle = IF angle > highest_angle THEN highest_angle ELSE angle,
                        !.ball_speed = @ + difference - wd + highest_speed]
  IN [w EXCEPT !.balls[i] = set_velocity(hit)]

\* Ball.change_horizontal_velocity
change_horizontal_velocity(w, i) ==
  IF w.balls[i].center_x < w.paddle.center_x
  THEN [w EXCEPT !.balls[i].change_x = -1]
  ELSE w

\* the name of the next ball object
new_ball(w) == Min((1..(Cardinality(DOMAIN w.balls) + 1)) \ DOMAIN w.balls)

\* a conversion that leaves its source in the ball list
convert_and_keep(w, i, ball_type) ==
  LET n == new_ball(w)
      made == [Ball(ball_type, w.balls[i].level) EXCEPT
                 !.center_x = w.balls[i].center_x, !.center_y = w.balls[i].center_y]
      w1 == [w EXCEPT !.balls = [k \in DOMAIN w.balls \cup {n} |->
                                   IF k = n THEN made ELSE w.balls[k]]]
      w2 == change_horizontal_velocity(w1, n)
  IN [w |-> [w2 EXCEPT !.ball_list = Append(@, n)], ball |-> n]

\* Ball.convert_to: the world after it and the ball it returns
convert_to(w, i, ball_type) ==
  LET n == new_ball(w)
      made == [Ball(ball_type, w.balls[i].level) EXCEPT
                 !.center_x = w.balls[i].center_x, !.center_y = w.balls[i].center_y]
      w1 == [w EXCEPT !.balls = [k \in DOMAIN w.balls \cup {n} |->
                                   IF k = n THEN made ELSE w.balls[k]]]
      w2 == change_horizontal_velocity(w1, n)
      w3 == [w2 EXCEPT !.ball_list = Append(@, n)]
  IN [w |-> remove_ball(w3, i), ball |-> n]

\* a split that launches a NormalBall, whatever the ball that splits
split_off_a_normal_ball(w, i) ==
  LET n == new_ball(w)
      made == [Ball("NormalBall", TRUE) EXCEPT
                 !.center_x = w.balls[i].center_x, !.center_y = w.balls[i].center_y,
                 !.change_x = -w.balls[i].change_x, !.change_y = w.balls[i].change_y]
  IN [w EXCEPT !.balls = [k \in DOMAIN w.balls \cup {n} |->
                            IF k = n THEN made ELSE w.balls[k]],
               !.ball_list = Append(@, n),
               !.paddle.split_balls = @ - 1]

\* Ball.split_into_two
split_into_two(w, i) ==
  LET n == new_ball(w)
      made == [Ball(w.balls[i].class, TRUE) EXCEPT
                 !.center_x = w.balls[i].center_x, !.center_y = w.balls[i].center_y,
                 !.change_x = -w.balls[i].change_x, !.change_y = w.balls[i].change_y]
  IN [w EXCEPT !.balls = [k \in DOMAIN w.balls \cup {n} |->
                            IF k = n THEN made ELSE w.balls[k]],
               !.ball_list = Append(@, n),
               !.paddle.split_balls = @ - 1]

\* change_properties that does not take a charge for a ball that is
\* invincible already (sparing), or that leaves an invincible ball
\* invincible when no charge is left (for_ever)
change_properties_with(w, i, sparing, for_ever) ==
  LET w0 == [w EXCEPT !.calls = Append(@, <<"Ball.change_properties", i>>)]
      c1 == IF w0.paddle.invincible_balls > 0
            THEN LET c == IF ~is_invincible(w0.balls[i].class)
                          THEN convert_to(w0, i, "InvinciBall")
                          ELSE [w |-> w0, ball |-> i]
                 IN [w |-> [c.w EXCEPT !.paddle.invincible_balls =
                                         IF sparing /\ c.ball = i THEN @ ELSE @ - 1],
                     ball |-> c.ball]
            ELSE IF is_invincible(w0.balls[i].class) /\ ~for_ever
                 THEN convert_to(w0, i, "NormalBall")
                 ELSE [w |-> w0, ball |-> i]
  IN IF c1.w.paddle.is_magnetic
     THEN LET c2 == IF is_invincible(c1.w.balls[c1.ball].class)
                    THEN convert_to(c1.w, c1.ball, "MagneticInviciBall")
                    ELSE convert_to(c1.w, c1.ball, "MagneticNormalBall")
          IN [c2.w EXCEPT !.paddle.magnetic_ball_list = Append(@, c2.ball)]
     ELSE LET w3 == change_velocity(c1.w, c1.ball)
          IN IF w3.paddle.split_balls > 0 THEN split_into_two(w3, c1.ball) ELSE w3

change_properties_for_ever(w, i) == change_properties_with(w, i, FALSE, TRUE)
change_properties_sparing(w, i) == change_properties_with(w, i, TRUE, FALSE)

\* change_properties that leaves the list of the balls on the paddle as it is
change_properties_off_the_list(w, i) ==
  [change_properties_with(w, i, FALSE, FALSE) EXCEPT
     !.paddle.magnetic_ball_list = w.paddle.magnetic_ball_list]

\* Ball.change_properties
Ball_change_properties(w, i) ==
  LET w0 == [w EXCEPT !.calls = Append(@, <<"Ball.change_properties", i>>)]
      c1 == IF w0.paddle.invincible_balls > 0
            THEN LET c == IF ~is_invincible(w0.balls[i].class)
                          THEN convert_to(w0, i, "InvinciBall")
                          ELSE [w |-> w0, ball |-> i]
                 IN [w |-> [c.w EXCEPT !.paddle.invincible_balls = @ - 1], ball |-> c.ball]
            ELSE IF is_invincible(w0.balls[i].class)
                 THEN convert_to(w0, i, "NormalBall")
                 ELSE [w |-> w0, ball |-> i]
  IN IF c1.w.paddle.is_magnetic
     THEN LET c2 == IF is_invincible(c1.w.balls[c1.ball].class)
                    THEN convert_to(c1.w, c1.ball, "MagneticInviciBall")
                    ELSE convert_to(c1.w, c1.ball, "MagneticNormalBall")
          IN [c2.w EXCEPT !.paddle.magnetic_ball_list = Append(@, c2.ball)]
     ELSE LET w3 == change_velocity(c1.w, c1.ball)
          IN IF w3.paddle.split_balls > 0 THEN split_into_two(w3, c1.ball) ELSE w3

\* a paddle whose sides change a ball as its top does
lands_on_every_side(w, i, collides) ==
  IF w.balls[i].level /\ collides THEN Ball_change_properties(w, i) ELSE w

\* Ball.collides_with_paddle_moving_horizontally; collides is the answer of
\* collides_with_sprite(self.level.paddle)
collides_with_paddle_moving_horizontally(w, i, collides) ==
  LET ball == w.balls[i]
  IN IF ~(ball.level /\ collides) THEN w
     ELSE IF ball.change_x < 0 /\ ball.center_x < w.paddle.center_x
     THEN [w EXCEPT !.balls[i] =
             set_velocity([ball EXCEPT !.velocity_angle = 180 + 15, !.ball_speed = @ + 100])]
     ELSE IF ball.change_x > 0 /\ ball.center_x > w.paddle.center_x
     THEN [w EXCEPT !.balls[i] =
             set_velocity([ball EXCEPT !.velocity_angle = -15, !.ball_speed = @ + 100])]
     ELSE IF ball.change_x > 0
     THEN [w EXCEPT !.balls[i] = [set_right(ball, left(w.paddle)) EXCEPT !.change_x = -ball.change_x]]
     ELSE IF ball.change_x < 0
     THEN [w EXCEPT !.balls[i] = [set_left(ball, right(w.paddle)) EXCEPT !.change_x = -ball.change_x]]
     ELSE w

\* Ball.collides_with_paddle_moving_vertically
collides_with_paddle_moving_vertically(w, i, collides) ==
  LET ball == w.balls[i]
  IN IF ~(ball.level /\ collides) THEN w
     ELSE IF ball.change_y < 0 /\ ball.center_y < top(w.paddle) /\ ball.center_x < left(w.paddle)
     THEN [w EXCEPT !.balls[i] =
             set_velocity([ball EXCEPT !.velocity_angle = 180 + 15, !.ball_speed = @ + 100])]
     ELSE IF ball.change_y < 0 /\ ball.center_y < top(w.paddle) /\ ball.center_x > right(w.paddle)
     THEN [w EXCEPT !.balls[i] =
             set_velocity([ball EXCEPT !.velocity_angle = -15, !.ball_speed = @ + 100])]
     ELSE IF ball.change_y > 0
     THEN [w EXCEPT !.balls[i] = [set_top(ball, bottom(w.paddle)) EXCEPT !.change_y = -ball.change_y]]
     ELSE IF ball.change_y < 0
     THEN Ball_change_properties([w EXCEPT !.balls[i] = set_bottom(ball, top(w.paddle))], i)
     ELSE w

\* a change of speed that takes the direction from velocity_angle
change_speed_along_the_angle(w, i, action) ==
  [w EXCEPT !.balls[i] = set_velocity([@ EXCEPT !.ball_speed =
                            IF action = "increase" THEN @ + 50
                            ELSE IF action = "decrease" THEN @ - 50 ELSE @])]

\* Ball.change_speed
change_speed(w, i, action) ==
  LET ball == w.balls[i]
      b1 == set_velocity([ball EXCEPT !.ball_speed =
                            IF action = "increase" THEN @ + 50
                            ELSE IF action = "decrease" THEN @ - 50 ELSE @])
      b2 == IF (ball.change_x < 0 /\ b1.change_x > 0) \/ (ball.change_x > 0 /\ b1.change_x < 0)
            THEN [b1 EXCEPT !.change_x = -@] ELSE b1
      b3 == IF (ball.change_y < 0 /\ b2.change_y > 0) \/ (ball.change_y > 0 /\ b2.change_y < 0)
            THEN [b2 EXCEPT !.change_y = -@] ELSE b2
  IN [w EXCEPT !.balls[i] = b3]

\* "for ball in self.level.ball_list: ball.change_speed(action)"
RECURSIVE change_speed_of_all(_, _, _)
change_speed_of_all(w, todo, action) ==
  IF todo = <<>> THEN w
  ELSE change_speed_of_all(change_speed(w, Head(todo), action), Tail(todo), action)

(***************************************************************************)
(* Paddle                                                                  *)
(***************************************************************************)
PADDLE_SPEED == 500

\* Paddle.__init__
Paddle(class) ==
  [class |-> class,
   center_x |-> boundary.center_x,
   center_y |-> boundary.inner_bottom + 20,
   is_magnetic |-> FALSE,
   activate_shooter |-> FALSE,
   invincible_balls |-> 0,
   split_balls |-> 0,
   magnetic_ball_list |-> <<>>]

\* int(change_x * delta_time) for the default delta_time of 1 / 60
displacement(change) == TruncDiv(change, 60)

\* Paddle.collides_with_boundary
Paddle_collides_with_boundary(w) ==
  IF right(w.paddle) > boundary.inner_right
  THEN [w EXCEPT !.paddle = set_right(w.paddle, boundary.inner_right)]
  ELSE IF left(w.paddle) < boundary.inner_left
  THEN [w EXCEPT !.paddle = set_left(w.paddle, boundary.inner_left)]
  ELSE w

\* the change_x that Paddle.on_update and MagneticNormalBall.on_update
\* compute from the arrow keys
key_change_x(w) ==
  IF w.level.left_pressed /\ ~w.level.right_pressed THEN -PADDLE_SPEED
  ELSE IF w.level.right_pressed /\ ~w.level.left_pressed THEN PADDLE_SPEED
  ELSE 0

\* Paddle.on_update
Paddle_on_update(w) ==
  IF key_change_x(w) # 0
  THEN Paddle_collides_with_boundary(
         [w EXCEPT !.paddle.center_x = @ + displacement(key_change_x(w))])
  ELSE w

\* MagneticNormalBall.on_update
MagneticNormalBall_on_update(w, i) ==
  LET cx == IF (left(w.paddle) = boundary.inner_left /\ w.level.left_pressed)
               \/ (right(w.paddle) = boundary.inner_right /\ w.level.right_pressed)
            THEN 0 ELSE key_change_x(w)
      w1 == [w EXCEPT !.balls[i].change_x = cx]
  IN IF cx # 0
     THEN collides_with_boundary_moving_horizontally(
            [w1 EXCEPT !.balls[i].center_x = @ + displacement(cx)], i)
     ELSE w1

\* Paddle.release_magnetic_balls
RECURSIVE release_each(_, _)
release_each(w, todo) ==
  IF todo = <<>> THEN w
  ELSE LET ball == Head(todo)
           c == IF is_invincible(w.balls[ball].class)
                THEN convert_to(w, ball, "InvinciBall")
                ELSE convert_to(w, ball, "NormalBall")
           w1 == change_velocity(c.w, c.ball)
           w2 == IF w1.paddle.split_balls > 0 THEN split_into_two(w1, c.ball) ELSE w1
       IN release_each(w2, Tail(todo))

\* a release that splits every ball, whatever split_balls is
RECURSIVE release_and_split_each(_, _)
release_and_split_each(w, todo) ==
  IF todo = <<>> THEN w
  ELSE LET ball == Head(todo)
           c == IF is_invincible(w.balls[ball].class)
                THEN convert_to(w, ball, "InvinciBall")
                ELSE convert_to(w, ball, "NormalBall")
       IN release_and_split_each(split_into_two(change_velocity(c.w, c.ball), c.ball), Tail(todo))

release_and_split(w) ==
  [release_and_split_each(w, w.paddle.magnetic_ball_list) EXCEPT !.paddle.magnetic_ball_list = <<>>]

release_magnetic_balls(w) ==
  [release_each(w, w.paddle.magnetic_ball_list) EXCEPT !.paddle.magnetic_ball_list = <<>>]

\* a new paddle of a class at the place of the current one
replace_paddle_anew(w, class) ==
  [w EXCEPT !.paddle = [Paddle(class) EXCEPT
                          !.center_x = w.paddle.center_x,
                          !.center_y = w.paddle.center_y,
                          !.magnetic_ball_list = w.paddle.magnetic_ball_list]]

\* a new paddle of a class followed by Paddle.copy_properties_from(the current one)
replace_paddle(w, class) ==
  [w EXCEPT !.paddle = [Paddle(class) EXCEPT
                          !.center_x = w.paddle.center_x,
                          !.center_y = w.paddle.center_y,
                          !.is_magnetic = w.paddle.is_magnetic,
                          !.activate_shooter = w.paddle.activate_shooter,
                          !.invincible_balls = w.paddle.invincible_balls,
                          !.split_balls = w.paddle.split_balls,
                          !.magnetic_ball_list = w.paddle.magnetic_ball_list]]

(***************************************************************************)
(* Level.level_is_complete and Level.lose_a_life                           *)
(***************************************************************************)
\* Level.level_is_complete giving the lesser bonus to any letters collected
level_is_complete_for_any_letters(w) ==
  LET w1 == [w EXCEPT !.calls = Append(@, <<"Level.level_is_complete", 0>>),
                      !.level.game_is_active = FALSE,
                      !.level.level_complete = TRUE,
                      !.level.elapsed_time = 0]
      w2 == IF Len(w1.level.bonus_collection_order) > 0
            THEN [w1 EXCEPT !.level.bonus_score =
                    IF w1.level.bonus_collection_order = <<"B", "O", "N", "U", "S">>
                    THEN 5000 ELSE 2000]
            ELSE w1
  IN [w2 EXCEPT !.level.bonus_score = @ + w2.window.lives * 100]

level_is_complete(w) ==
  LET w1 == [w EXCEPT !.calls = Append(@, <<"Level.level_is_complete", 0>>),
                      !.level.game_is_active = FALSE,
                      !.level.level_complete = TRUE,
                      !.level.elapsed_time = 0]
      w2 == IF Len(w1.level.bonus_collection_order) = 5
            THEN [w1 EXCEPT !.level.bonus_score =
                    IF w1.level.bonus_collection_order = <<"B", "O", "N", "U", "S">>
                    THEN 5000 ELSE 2000]
            ELSE w1
  IN [w2 EXCEPT !.level.bonus_score = @ + w2.window.lives * 100]

\* lose_a_life that never ends the game
lose_a_life_and_go_on(w) ==
  [w EXCEPT !.calls = Append(@, <<"Level.lose_a_life", 0>>),
            !.level.game_is_active = FALSE,
            !.window.lives = @ - 1,
            !.level.lost_a_life = TRUE,
            !.level.elapsed_time = 0]

lose_a_life(w) ==
  LET w1 == [w EXCEPT !.calls = Append(@, <<"Level.lose_a_life", 0>>),
                      !.level.game_is_active = FALSE,
                      !.window.lives = @ - 1]
      w2 == IF w1.window.lives = 0
            THEN [w1 EXCEPT !.level.game_over = TRUE]
            ELSE [w1 EXCEPT !.level.lost_a_life = TRUE]
  IN [w2 EXCEPT !.level.elapsed_time = 0]

(***************************************************************************)
(* Icons.  An icon in flight is the name of its class.                     *)
(***************************************************************************)
\* ShortenPaddleIcon.activate_icon_property: the loop over
\* paddle.magnetic_ball_list, which removes from the list it iterates over
\* (k is the position of the list iterator)
RECURSIVE drop_balls_off_paddle(_, _)
drop_balls_off_paddle(w, k) ==
  IF k > Len(w.paddle.magnetic_ball_list) THEN w
  ELSE LET ball == w.paddle.magnetic_ball_list[k]
       IN IF w.balls[ball].center_x < left(w.paddle) \/ w.balls[ball].center_x > right(w.paddle)
          THEN LET c == IF is_invincible(w.balls[ball].class)
                        THEN convert_to(w, ball, "InvinciBall")
                        ELSE convert_to(w, ball, "NormalBall")
                   w1 == [c.w EXCEPT !.balls[c.ball] =
                            set_velocity([@ EXCEPT !.ball_speed = 200, !.velocity_angle = -90])]
               IN drop_balls_off_paddle(
                    [w1 EXCEPT !.paddle.magnetic_ball_list = SeqRemove(@, ball)], k + 1)
          ELSE drop_balls_off_paddle(w, k + 1)

\* InvinciBallIcon.activate_icon_property: the loop over
\* paddle.magnetic_ball_list, which appends to and removes from it
RECURSIVE make_magnetic_balls_invincible(_, _)
make_magnetic_balls_invincible(w, k) ==
  IF k > Len(w.paddle.magnetic_ball_list) THEN w
  ELSE LET ball == w.paddle.magnetic_ball_list[k]
       IN IF ~is_invincible(w.balls[ball].class)
          THEN LET c == convert_to(w, ball, "MagneticInviciBall")
               IN make_magnetic_balls_invincible(
                    [c.w EXCEPT !.paddle.magnetic_ball_list = SeqRemove(Append(@, c.ball), ball),
                                !.paddle.invincible_balls = @ - 1], k + 1)
          ELSE make_magnetic_balls_invincible(w, k + 1)

\* activate_icon_property of each icon class (is_demo_level is False)
activate_icon_property(w, icon) ==
  LET w0 == [w EXCEPT !.calls = Append(@, <<icon, 0>>)]
  IN CASE icon = "LengthenPaddleIcon" ->
            change_speed_of_all(
              Paddle_collides_with_boundary(
                replace_paddle(w0, IF w0.paddle.class = "ShortPaddle"
                                   THEN "NormalPaddle" ELSE "LongPaddle")),
              w0.ball_list, "increase")
       [] icon = "ShortenPaddleIcon" ->
            drop_balls_off_paddle(
              replace_paddle(w0, IF w0.paddle.class = "LongPaddle"
                                 THEN "NormalPaddle" ELSE "ShortPaddle"), 1)
       [] icon = "MagneticPaddleIcon" -> [w0 EXCEPT !.paddle.is_magnetic = TRUE]
       [] icon = "BonusScoreIcon" -> [w0 EXCEPT !.window.score = @ + 5000]
       [] icon = "ShootingIcon" -> [w0 EXCEPT !.paddle.activate_shooter = TRUE]
       [] icon = "SplitBallIcon" -> [w0 EXCEPT !.paddle.split_balls = @ + 3]
       [] icon = "BonusLifeIcon" -> [w0 EXCEPT !.window.lives = @ + 1]
       [] icon = "SafetyBarrierIcon" ->
            LET b == Len(w0.bricks) + 1
            IN [w0 EXCEPT !.bricks = Append(@, SafetyBarrier), !.brick_list = @ \cup {b}]
       [] icon = "AdvanceLevelIcon" -> level_is_complete(w0)
       [] icon = "SpeedUpBallsIcon" ->
            LET w1 == release_magnetic_balls([w0 EXCEPT !.paddle.is_magnetic = FALSE])
            IN change_speed_of_all(w1, w1.ball_list, "increase")
       [] icon = "SlowDownBallsIcon" -> change_speed_of_all(w0, w0.ball_list, "decrease")
       [] icon = "InvinciBallIcon" ->
            make_magnetic_balls_invincible([w0 EXCEPT !.paddle.invincible_balls = @ + 3], 1)

\* an icon that is activated on the paddle and goes on falling
Icon_caught_and_kept(w, k, fate) ==
  LET icon == w.icon_list[k]
      without == [j \in 1..(Len(w.icon_list) - 1) |->
                    IF j < k THEN w.icon_list[j] ELSE w.icon_list[j + 1]]
  IN IF fate = "caught" THEN activate_icon_property(w, icon)
     ELSE IF fate = "lost" THEN [w EXCEPT !.icon_list = without]
     ELSE w

\* Icon.on_update of the k-th icon of level.icon_list; fate is where the
\* library finds it after the move: "caught" (it collides with the paddle),
\* "lost" (its top is below the field) or "falling"
Icon_on_update(w, k, fate) ==
  LET icon == w.icon_list[k]
      without == [j \in 1..(Len(w.icon_list) - 1) |->
                    IF j < k THEN w.icon_list[j] ELSE w.icon_list[j + 1]]
  IN IF fate = "caught"
     THEN [activate_icon_property(w, icon) EXCEPT !.icon_list = without]
     ELSE IF fate = "lost" THEN [w EXCEPT !.icon_list = without]
     ELSE w

(***************************************************************************)
(* Bullets.  Bullets carry no state but their place: level.bullet_list is  *)
(* the number of bullets in flight.                                        *)
(***************************************************************************)
\* Bullet.on_update; out is "self.bottom > inner_top"
Bullet_on_update(w, hit_list, out) ==
  IF hit_list # <<>>
  THEN change_properties_of_all([w EXCEPT !.bullet_list = @ - 1], hit_list)
  ELSE IF out THEN [w EXCEPT !.bullet_list = @ - 1]
  ELSE w

(***************************************************************************)
(* Construction                                                            *)
(***************************************************************************)
\* ParanoidGame.__init__ followed by the "level_number += 1" of Level.__init__
\* for the level shown; view is the view the window shows
NewWindow == [score |-> 0, lives |-> 3, level_number |-> 1, display_score |-> 0,
              view |-> "Level"]

\* Level.__init__: the attributes of a level
NewLevel == [game_over |-> FALSE,
             level_complete |-> FALSE,
             game_is_active |-> FALSE,
             lost_a_life |-> FALSE,
             bonus_added |-> FALSE,
             load_next_level |-> FALSE,
             left_pressed |-> FALSE,
             right_pressed |-> FALSE,
             bonus_score |-> 0,
             bonus_collection_order |-> <<>>,
             elapsed_time |-> 0,
             elapsed_time_copy |-> 0]

(***************************************************************************)
(* One frame of a ball.  A frame f of a ball gives what the library        *)
(* answers during its on_update: hx and hy are the hit lists of            *)
(* collides_with_list(brick_list) after the horizontal and the vertical    *)
(* move, px and py the answers of collides_with_sprite(paddle).            *)
(***************************************************************************)
\* Ball.on_update (delta_time is the default 1 / 60)
Ball_on_update(w, i, f) ==
  LET w1 == [w EXCEPT !.calls = Append(@, <<"Ball.on_update", i>>),
                      !.balls[i].center_x = @ + displacement(w.balls[i].change_x)]
      w2 == collides_with_boundary_moving_horizontally(w1, i)
      w3 == collides_with_brick_moving_horizontally(w2, i, f.hx)
      w4 == collides_with_paddle_moving_horizontally(w3, i, f.px)
      w5 == [w4 EXCEPT !.balls[i].center_y = @ + displacement(w4.balls[i].change_y)]
      w6 == collides_with_boundary_moving_vertically(w5, i)
      w7 == collides_with_brick_moving_vertically(w6, i, f.hy)
  IN collides_with_paddle_moving_vertically(w7, i, f.py)

\* on_update of a ball of any class
any_ball_on_update(w, i, f) ==
  IF is_magnetic_ball(w.balls[i].class)
  THEN MagneticNormalBall_on_update(w, i)
  ELSE Ball_on_update([w EXCEPT !.balls[i].center_x = f.x, !.balls[i].center_y = f.y], i, f)

\* the frame of a ball that meets nothing in the middle of the field
Flying == [x |-> boundary.center_x, y |-> (boundary.inner_bottom + boundary.inner_top) \div 2,
           hx |-> <<>>, px |-> FALSE, hy |-> <<>>, py |-> FALSE]

\* level.ball_list.on_update(): SpriteList.on_update walks the list it holds
\* while the balls remove themselves from it and append to it; k is the
\* position of the list iterator, frames the frames of the balls that were
\* in the list when the walk began
RECURSIVE ball_list_on_update(_, _, _)
ball_list_on_update(w, k, frames) ==
  IF k > Len(w.ball_list) THEN w
  ELSE ball_list_on_update(
         any_ball_on_update(w, w.ball_list[k], IF k <= Len(frames) THEN frames[k] ELSE Flying),
         k + 1, frames)

\* level.icon_list.on_update(), walked the same way; an icon met beyond the
\* fates given goes on falling
RECURSIVE icon_list_on_update(_, _, _)
icon_list_on_update(w, k, fates) ==
  IF k > Len(w.icon_list) THEN w
  ELSE icon_list_on_update(
         Icon_on_update(w, k, IF k <= Len(fates) THEN fates[k] ELSE "falling"), k + 1, fates)

\* level.bullet_list.on_update(), walked the same way; shots[k] is the hit
\* list and the place of the bullet met at position k
RECURSIVE bullet_list_on_update(_, _, _)
bullet_list_on_update(w, k, shots) ==
  IF k > w.bullet_list THEN w
  ELSE LET shot == IF k <= Len(shots) THEN shots[k] ELSE [hit_list |-> <<>>, out |-> FALSE]
       IN bullet_list_on_update(Bullet_on_update(w, shot.hit_list, shot.out), k + 1, shots)

\* level.brick_list.update(): Brick.update of every brick
RECURSIVE brick_list_update(_, _, _, _)
brick_list_update(w, todo, hit_by_ball, hit_by_bullet) ==
  IF todo = {} THEN w
  ELSE LET b == Min(todo)
       IN brick_list_update(Brick_update(w, b, b \in hit_by_ball, b \in hit_by_bullet),
                            todo \ {b}, hit_by_ball, hit_by_bullet)

\* level.brick_list.update() of the frame that in brings
brick_list_update_all(w, in) ==
  brick_list_update(w, w.brick_list, in.hit_by_ball, in.hit_by_bullet)

\* the end of an update that looks for the balls first
end_of_update_balls_first(w) ==
  IF w.ball_list = <<>> THEN lose_a_life(w)
  ELSE IF w.breakable_brick_list = {} THEN level_is_complete(w)
  ELSE w

\* Level.on_update: what follows the updates of an active game
end_of_update(w) ==
  IF w.breakable_brick_list = {} THEN level_is_complete(w)
  ELSE IF w.ball_list = <<>> THEN lose_a_life(w)
  ELSE w

(***************************************************************************)
(* The handlers of Level                                                   *)
(***************************************************************************)
\* an on_update whose pauses do not wait for the displayed score
on_update_without_catch_up(w, in) ==
  LET t == [w EXCEPT !.calls = Append(@, <<"Level.on_update", 0>>),
                     !.level.elapsed_time = @ + in.delta_time]
  IN IF t.level.game_is_active
     THEN end_of_update(
            brick_list_update_all(
              bullet_list_on_update(
                icon_list_on_update(
                  Paddle_on_update(ball_list_on_update(t, 1, in.frames)),
                  1, in.fates),
                1, in.shots),
              in))
     ELSE IF t.level.lost_a_life /\ t.level.elapsed_time > PAUSE_TIME + TRANSITION_TIME
     THEN LET n == new_ball(t)
          IN [t EXCEPT !.paddle = Paddle("NormalPaddle"),
                       !.balls = [j \in DOMAIN t.balls \cup {n} |->
                                    IF j = n THEN Ball("NormalBall", TRUE) ELSE t.balls[j]],
                       !.ball_list = Append(@, n),
                       !.level.lost_a_life = FALSE]
     ELSE IF t.level.game_over /\ t.level.elapsed_time > PAUSE_TIME * 2 + TRANSITION_TIME
     THEN [t EXCEPT !.window.view = IF in.qualifies THEN "NameEntryView" ELSE "HighScoreView"]
     ELSE IF t.level.level_complete /\ t.level.elapsed_time > PAUSE_TIME + TRANSITION_TIME
             /\ ~t.level.load_next_level
     THEN [t EXCEPT !.level.load_next_level = TRUE,
                    !.level.elapsed_time_copy = t.level.elapsed_time]
     ELSE IF t.level.load_next_level
             /\ t.level.elapsed_time > t.level.elapsed_time_copy + PAUSE_TIME - 1
     THEN [t EXCEPT !.window.view = "LevelOutroView"]
     ELSE t

\* an on_update that gives a new ball to the paddle that lost the last one
on_update_keeping_the_paddle(w, in) ==
  LET t == [w EXCEPT !.calls = Append(@, <<"Level.on_update", 0>>),
                     !.level.elapsed_time = @ + in.delta_time]
  IN IF t.level.game_is_active
     THEN end_of_update(
            brick_list_update_all(
              bullet_list_on_update(
                icon_list_on_update(
                  Paddle_on_update(ball_list_on_update(t, 1, in.frames)),
                  1, in.fates),
                1, in.shots),
              in))
     ELSE IF t.level.lost_a_life /\ t.level.elapsed_time > PAUSE_TIME + TRANSITION_TIME
     THEN LET n == new_ball(t)
          IN [t EXCEPT !.balls = [j \in DOMAIN t.balls \cup {n} |->
                                    IF j = n THEN Ball("NormalBall", TRUE) ELSE t.balls[j]],
                       !.ball_list = Append(@, n),
                       !.level.lost_a_life = FALSE]
     ELSE IF t.level.game_over /\ t.level.elapsed_time > PAUSE_TIME * 2 + TRANSITION_TIME
             /\ t.window.display_score = t.window.score
     THEN [t EXCEPT !.window.view = IF in.qualifies THEN "NameEntryView" ELSE "HighScoreView"]
     ELSE IF t.level.level_complete /\ t.level.elapsed_time > PAUSE_TIME + TRANSITION_TIME
             /\ t.window.display_score = t.window.score /\ ~t.level.load_next_level
     THEN [t EXCEPT !.level.load_next_level = TRUE,
                    !.level.elapsed_time_copy = t.level.elapsed_time]
     ELSE IF t.level.load_next_level
             /\ t.level.elapsed_time > t.level.elapsed_time_copy + PAUSE_TIME - 1
     THEN [t EXCEPT !.window.view = "LevelOutroView"]
     ELSE t

\* Level.on_update; in is what the frame brings: the time passed, the
\* frames of the balls, the fates of the icons, the shots of the bullets
\* and the bricks that a ball or a bullet still overlaps when the bricks
\* update; qualifies is "window.score > HIGH_SCORES[-1].score"
Level_on_update(w, in) ==
  LET t == [w EXCEPT !.calls = Append(@, <<"Level.on_update", 0>>),
                     !.level.elapsed_time = @ + in.delta_time]
  IN IF t.level.game_is_active
     THEN end_of_update(
            brick_list_update_all(
              bullet_list_on_update(
                icon_list_on_update(
                  Paddle_on_update(ball_list_on_update(t, 1, in.frames)),
                  1, in.fates),
                1, in.shots),
              in))
     ELSE IF t.level.lost_a_life /\ t.level.elapsed_time > PAUSE_TIME + TRANSITION_TIME
     THEN LET n == new_ball(t)
          IN [t EXCEPT !.paddle = Paddle("NormalPaddle"),
                       !.balls = [j \in DOMAIN t.balls \cup {n} |->
                                    IF j = n THEN Ball("NormalBall", TRUE) ELSE t.balls[j]],
                       !.ball_list = Append(@, n),
                       !.level.lost_a_life = FALSE]
     ELSE IF t.level.game_over /\ t.level.elapsed_time > PAUSE_TIME * 2 + TRANSITION_TIME
             /\ t.window.display_score = t.window.score
     THEN [t EXCEPT !.window.view = IF in.qualifies THEN "NameEntryView" ELSE "HighScoreView"]
     ELSE IF t.level.level_complete /\ t.level.elapsed_time > PAUSE_TIME + TRANSITION_TIME
             /\ t.window.display_score = t.window.score /\ ~t.level.load_next_level
     THEN [t EXCEPT !.level.load_next_level = TRUE,
                    !.level.elapsed_time_copy = t.level.elapsed_time]
     ELSE IF t.level.load_next_level
             /\ t.level.elapsed_time > t.level.elapsed_time_copy + PAUSE_TIME - 1
     THEN [t EXCEPT !.window.view = "LevelOutroView"]
     ELSE t

\* DisplayInfoBlock.draw counting in sevens
draw_adding_seven(w) ==
  IF w.window.display_score < w.window.score
  THEN [w EXCEPT !.window.display_score = @ + 7]
  ELSE w

\* DisplayInfoBlock.draw
DisplayInfoBlock_draw(w) ==
  IF w.window.display_score < w.window.score
  THEN [w EXCEPT !.window.display_score = @ + 5]
  ELSE w

\* on_draw that does not remember that it has added the bonus
on_draw_adding_every_time(w) ==
  LET w1 == DisplayInfoBlock_draw([w EXCEPT !.calls = Append(@, <<"Level.on_draw", 0>>)])
  IN IF w1.level.game_over /\ w1.level.elapsed_time > PAUSE_TIME + TRANSITION_TIME
     THEN w1
     ELSE IF w1.level.level_complete /\ w1.level.elapsed_time > PAUSE_TIME
     THEN [w1 EXCEPT !.window.score = @ + w1.level.bonus_score,
                     !.level.bonus_added = TRUE]
     ELSE w1

\* Level.on_draw
Level_on_draw(w) ==
  LET w1 == DisplayInfoBlock_draw([w EXCEPT !.calls = Append(@, <<"Level.on_draw", 0>>)])
  IN IF w1.level.game_over /\ w1.level.elapsed_time > PAUSE_TIME + TRANSITION_TIME
     THEN w1
     ELSE IF w1.level.level_complete /\ w1.level.elapsed_time > PAUSE_TIME
     THEN IF ~w1.level.bonus_added
          THEN [w1 EXCEPT !.window.score = @ + w1.level.bonus_score,
                          !.level.bonus_added = TRUE]
          ELSE w1
     ELSE w1

\* Level.on_key_press (is_demo_level is False)
Level_on_key_press(w, symbol) ==
  CASE symbol = "LEFT" -> [w EXCEPT !.level.left_pressed = TRUE]
    [] symbol = "RIGHT" -> [w EXCEPT !.level.right_pressed = TRUE]
    [] symbol = "SPACE" ->
         IF ~w.level.lost_a_life /\ ~w.level.game_over /\ ~w.level.level_complete
         THEN LET w1 == [w EXCEPT !.calls = Append(@, <<"Level.game_is_active = True", 0>>),
                                  !.level.game_is_active = TRUE]
                  w2 == IF w1.paddle.is_magnetic THEN release_magnetic_balls(w1) ELSE w1
              IN IF w2.paddle.activate_shooter
                 THEN [w2 EXCEPT !.bullet_list = @ + 1]
                 ELSE w2
         ELSE w
    [] symbol = "ESCAPE" ->
         IF ~w.level.game_over /\ ~w.level.level_complete
         THEN [w EXCEPT !.window.view = "PauseMenuView",
                        !.level.left_pressed = FALSE,
                        !.level.right_pressed = FALSE]
         ELSE w
    [] OTHER -> w

\* Level.on_key_release
Level_on_key_release(w, symbol) ==
  CASE symbol = "LEFT" -> [w EXCEPT !.level.left_pressed = FALSE]
    [] symbol = "RIGHT" -> [w EXCEPT !.level.right_pressed = FALSE]
    [] OTHER -> w

\* PauseMenuView.on_key_press with "Continue" selected
PauseMenuView_on_key_press(w, symbol) ==
  IF symbol \in {"ESCAPE", "ENTER"} THEN [w EXCEPT !.window.view = "Level"] ELSE w

\* PauseMenuView.on_draw and LevelOutroView.on_draw: both draw the level
PauseMenuView_on_draw(w) == Level_on_draw(w)

LevelOutroView_on_draw(w) == Level_on_draw(w)

\* the number of the last of the classes Level1, Level2, ...
LAST_LEVEL == 30

\* an outro that takes the class of the next level to exist
outro_to_the_next_level(w, out_of_view, qualifies) ==
  IF ~out_of_view THEN w
  ELSE [w EXCEPT !.window.view = "NextLevel", !.window.level_number = @ + 1]

\* LevelOutroView.on_update; out_of_view is "self.bottom >= SCREEN_HEIGHT * 2"
\* and qualifies is "self.level.window.score > HIGH_SCORES[-1].score".  eval
\* finds the class of the next level, whose __init__ adds 1 to
\* level_number and which the window then shows (the view "NextLevel"), or
\* raises the NameError that is caught
LevelOutroView_on_update(w, out_of_view, qualifies) ==
  IF ~out_of_view THEN w
  ELSE IF w.window.level_number + 1 <= LAST_LEVEL
  THEN [w EXCEPT !.window.view = "NextLevel", !.window.level_number = @ + 1]
  ELSE [w EXCEPT !.window.view = IF qualifies THEN "NameEntryView" ELSE "HighScoreView"]

(***************************************************************************)
(* SpecBrick: the brick methods, driven by the collision steps of a ball   *)
(* and by Brick.update, on a level of four bricks.                         *)
(***************************************************************************)
BrickGrid ==
  <<Brick("MultiColouredBrick4", 3, 6, "SplitBallIcon"),
    Brick("UnbreakableBrick", 3, 7, "None"),
    Brick("BonusBBrick", 4, 6, "None"),
    SafetyBarrier>>

InitBrick ==
  /\ window = NewWindow
  /\ level = [NewLevel EXCEPT !.game_is_active = TRUE]
  /\ paddle = [Paddle("NormalPaddle") EXCEPT !.activate_shooter = TRUE]
  /\ \E class \in {"NormalBall", "InvinciBall"}, has_level \in BOOLEAN :
        /\ class = "InvinciBall" => has_level
        /\ balls = [i \in {1} |-> Ball(class, has_level)]
  /\ ball_list = <<1>>
  /\ bricks = BrickGrid
  /\ brick_list = 1..Len(BrickGrid)
  /\ breakable_brick_list = {b \in 1..Len(BrickGrid) :
                               BrickGrid[b].is_breakable /\ ~BrickGrid[b].is_safety_barrier}
  /\ icon_list = <<>>
  /\ bullet_list = 0
  /\ calls = <<>>

\* the brick step of the horizontal half of Ball.on_update
BrickStepX ==
  \E i \in Range(ball_list), hit_list \in HitLists(World) :
     /\ ~is_magnetic_ball(balls[i].class)
     /\ Commit(collides_with_brick_moving_horizontally(World, i, hit_list))

\* the brick step of the vertical half of Ball.on_update
BrickStepY ==
  \E i \in Range(ball_list), hit_list \in HitLists(World) :
     /\ ~is_magnetic_ball(balls[i].class)
     /\ Commit(collides_with_brick_moving_vertically(World, i, hit_list))

\* SPACE with the shooter on: a bullet leaves the paddle
BrickShoot ==
  /\ bullet_list < MaxBullets
  /\ Commit(Level_on_key_press(World, "SPACE"))

\* Bullet.on_update of a bullet in flight
BrickBulletStep ==
  /\ bullet_list > 0
  /\ \E hit_list \in HitLists(World), out \in BOOLEAN :
        /\ hit_list # <<>> => ~out
        /\ Commit(Bullet_on_update(World, hit_list, out))

\* the bricks whose latch is set: Brick.update reads its collisions for
\* these only
latched(w) == {b \in w.brick_list : w.bricks[b].has_been_hit}

\* SpriteList.update of level.brick_list: Brick.update of every brick in it
BrickListUpdate ==
  \E hit_by_ball \in SUBSET latched(World), hit_by_bullet \in SUBSET latched(World) :
     /\ ball_list = <<>> => hit_by_ball = {}
     /\ bullet_list = 0 => hit_by_bullet = {}
     /\ Commit(brick_list_update(World, brick_list, hit_by_ball, hit_by_bullet))

NextBrick == BrickStepX \/ BrickStepY \/ BrickShoot \/ BrickBulletStep \/ BrickListUpdate

SpecBrick == InitBrick /\ [][NextBrick]_vars

(***************************************************************************)
(* SpecBall: one ball in play against the boundary, an unbreakable brick   *)
(* and the paddle, with two icons in flight.  Where a free ball is at the    *)
(* start of a frame is an input of the frame: between two frames the model *)
(* keeps the place of a ball only while the ball is on the paddle.         *)
(***************************************************************************)
\* the places of a ball over the paddle: center_x - paddle.left after the move
PaddleOffsets(w) == {-10, 0, width(w.paddle.class) \div 2, width(w.paddle.class),
                     width(w.paddle.class) + 10}

\* the frames of free ball i that SpecBall plays: in flight, at the three
\* walls, at the brick from the side and from below, on the paddle from
\* above (at each offset, above and below the top of the paddle) and from
\* the side
BallScenes(w, i) ==
  LET dx == displacement(w.balls[i].change_x)
      mid == Flying.y
  IN {Flying,
      [Flying EXCEPT !.x = boundary.inner_left + 5],
      [Flying EXCEPT !.x = boundary.inner_right - 5],
      [Flying EXCEPT !.y = boundary.inner_top - 5],
      [Flying EXCEPT !.hx = <<1>>],
      [Flying EXCEPT !.hy = <<1>>]}
     \cup {[x |-> left(w.paddle) + d - dx, y |-> y, hx |-> <<>>, px |-> FALSE,
            hy |-> <<>>, py |-> TRUE] :
             d \in PaddleOffsets(w), y \in {top(w.paddle) + 5, top(w.paddle) + 25}}
     \cup {[x |-> x - dx, y |-> w.paddle.center_y, hx |-> <<>>, px |-> TRUE,
            hy |-> <<>>, py |-> FALSE] :
             x \in {left(w.paddle) - 5, right(w.paddle) + 5}}

\* a free ball is where the ball of a new life is until its next frame
forget_places(w) ==
  [w EXCEPT !.balls = [i \in DOMAIN w.balls |->
     IF is_magnetic_ball(w.balls[i].class) THEN w.balls[i]
     ELSE [w.balls[i] EXCEPT !.center_x = boundary.center_x,
                             !.center_y = boundary.inner_bottom + 80]]]

\* the icons in flight when SpecBall begins
BallIconSupplies == {<<"MagneticPaddleIcon", "ShortenPaddleIcon">>,
                     <<"SpeedUpBallsIcon", "SlowDownBallsIcon">>,
                     <<"LengthenPaddleIcon", "MagneticPaddleIcon">>}

InitBall ==
  /\ window = NewWindow
  /\ level = [NewLevel EXCEPT !.game_is_active = TRUE]
  /\ paddle = Paddle("NormalPaddle")
  /\ balls = [i \in {1} |-> Ball("NormalBall", TRUE)]
  /\ ball_list = <<1>>
  /\ bricks = <<Brick("UnbreakableBrick", 3, 6, "None")>>
  /\ brick_list = {1}
  /\ breakable_brick_list = {}
  /\ icon_list \in BallIconSupplies
  /\ bullet_list = 0
  /\ calls = <<>>

\* on_update of one ball
BallFrame ==
  \E k \in 1..Len(ball_list) :
     LET i == ball_list[k]
     IN \E f \in (IF is_magnetic_ball(balls[i].class) THEN {Flying} ELSE BallScenes(World, i)) :
           Commit(forget_places(any_ball_on_update(World, i, f)))

\* Icon.on_update of an icon that reaches the paddle
BallIcon ==
  \E k \in 1..Len(icon_list) : Commit(forget_places(Icon_on_update(World, k, "caught")))

\* SPACE, which lets the balls on the paddle go
BallSpace ==
  /\ paddle.magnetic_ball_list # <<>>
  /\ Commit(forget_places(Level_on_key_press(World, "SPACE")))

NextBall == BallFrame \/ BallIcon \/ BallSpace

SpecBall == InitBall /\ [][NextBall]_vars

\* C1: every ball of the level, and every ball the paddle holds, has a
\* ball_speed within [BALL_MIN_SPEED, BALL_MAX_SPEED] = [550, 850] after
\* every handler that changes a speed: a bounce off the paddle (from above
\* or side-on), change_speed("increase") and ("decrease") of the icons, and
\* the eviction of an overhanging ball when the paddle shortens.
C1_SpeedWithinLimits ==
  /\ BALL_MIN_SPEED = 550 /\ BALL_MAX_SPEED = 850
  /\ \A i \in DOMAIN balls :
        BALL_MIN_SPEED <= balls[i].ball_speed /\ balls[i].ball_speed <= BALL_MAX_SPEED

\* a ball evicted from the shortened paddle falls at the minimum speed
C1_Witness ==
  /\ <<"ShortenPaddleIcon", 0>> \in Range(calls)
  /\ \E i \in Range(ball_list) :
        /\ balls[i].velocity_angle = -90
        /\ balls[i].ball_speed = BALL_MIN_SPEED

(***************************************************************************)
(* SpecBonus: the frames of an active level until it is complete, on a     *)
(* level with the five bonus bricks and on one without bonus bricks; one   *)
(* brick of each holds the advance-level icon.  Time stands still          *)
(* (delta_time is 0) and the ball stays in the field.                      *)
(***************************************************************************)
\* lives left when the level begins
MaxLives == 3

\* what a frame brings when only the balls and the icons meet something
TickInput(frames, fates) ==
  [delta_time |-> 0, frames |-> frames, fates |-> fates, shots |-> <<>>,
   hit_by_ball |-> {}, hit_by_bullet |-> {}, qualifies |-> FALSE]

BonusGrid ==
  <<Brick("BonusBBrick", 3, 2, "None"),
    Brick("BonusOBrick", 2, 6, "None"),
    Brick("BonusNBrick", 9, 4, "None"),
    Brick("BonusUBrick", 6, 9, "None"),
    Brick("BonusSBrick", 11, 12, "None"),
    Brick("RedLineBrick", 2, 5, "AdvanceLevelIcon")>>

PlainGrid ==
  <<Brick("GreyBrick", 1, 3, "AdvanceLevelIcon"),
    Brick("GreyBrick", 1, 4, "None")>>

InitBonus ==
  /\ \E lives \in 1..MaxLives : window = [NewWindow EXCEPT !.lives = lives]
  /\ level = NewLevel
  /\ paddle = Paddle("NormalPaddle")
  /\ balls = [i \in {1} |-> Ball("NormalBall", TRUE)]
  /\ ball_list = <<1>>
  /\ bricks \in {BonusGrid, PlainGrid}
  /\ brick_list = DOMAIN bricks
  /\ breakable_brick_list = DOMAIN bricks
  /\ icon_list = <<>>
  /\ bullet_list = 0
  /\ calls = <<>>

\* SPACE, which starts the game
BonusSpace ==
  /\ ~level.game_is_active
  /\ Commit(Level_on_key_press(World, "SPACE"))

\* Level.on_update of a frame in which the ball flies or meets bricks from
\* below, and each icon in flight since an earlier frame falls or is caught
BonusTick ==
  /\ level.game_is_active
  /\ \E hy \in HitLists(World), fates \in [1..Len(icon_list) -> {"falling", "caught"}] :
        Commit(forget_places(
          Level_on_update(World, TickInput(<<[Flying EXCEPT !.hy = hy]>>, fates))))

NextBonus == BonusSpace \/ BonusTick

SpecBonus == InitBonus /\ [][NextBonus]_vars

\* the bonus of a collection of letters, without the part for the lives
base(order) == IF order = <<"B", "O", "N", "U", "S">> THEN 5000
               ELSE IF Len(order) = 5 THEN 2000
               ELSE 0

\* C3: whenever the level is complete, bonus_score is base + 100 x lives:
\* base 5000 for B,O,N,U,S in that order, 2000 for the five letters in
\* another order, 0 for fewer than five letters.
C3_BonusFormula ==
  level.level_complete =>
     level.bonus_score = base(level.bonus_collection_order) + 100 * window.lives

\* C4 as claimed: a level complete with some letters, not the five in order,
\* has a base bonus of 2000.
C4_PartialCollectionEarns2000 ==
  (/\ level.level_complete
   /\ level.bonus_collection_order # <<>>
   /\ level.bonus_collection_order # <<"B", "O", "N", "U", "S">>)
  => level.bonus_score - 100 * window.lives = 2000

\* C4, amended: a level complete with one to four letters has a base bonus
\* of 0 (its bonus is 100 x lives); the base bonus of 2000 is that of the
\* five letters collected out of order.
C4_PartialCollectionEarnsNothing ==
  level.level_complete =>
     /\ Len(level.bonus_collection_order) \in 1..4 =>
           level.bonus_score - 100 * window.lives = 0
     /\ (/\ Len(level.bonus_collection_order) = 5
         /\ level.bonus_collection_order # <<"B", "O", "N", "U", "S">>) =>
           level.bonus_score - 100 * window.lives = 2000

\* the advance-level icon has completed a level with four letters collected
C4_Witness ==
  /\ level.level_complete
  /\ Len(level.bonus_collection_order) = 4
  /\ level.bonus_score = 100 * window.lives
  /\ <<"Level.level_is_complete", 0>> \in Range(calls)

(***************************************************************************)
(* SpecLevel: a level of two bricks from its construction to the view that *)
(* follows it, with the pause menu and the outro view, which draw the      *)
(* level.  Time is counted in seconds and passes only while one of the     *)
(* pauses of the level runs (elapsed_time is set to 0 when a pause         *)
(* begins and is read only by the pauses); a redraw is DrawFrames calls    *)
(* of on_draw in a row.  The level is the first one, begun with one to     *)
(* MaxLives lives, or one of the last two, begun with the last life; the   *)
(* score is counted from the beginning of the level.                       *)
(***************************************************************************)
\* the seconds a pause is followed for
MaxTime == 8

\* the calls of on_draw between two other events
DrawFrames == 10

LevelGrid ==
  <<Brick("GreyBrick", 1, 3, "SplitBallIcon"),
    Brick("GreyBrick", 1, 4, "AdvanceLevelIcon")>>

InitLevel ==
  /\ \E lives \in 1..MaxLives, number \in {1, LAST_LEVEL - 1, LAST_LEVEL} :
        /\ number # 1 => lives = 1
        /\ window = [NewWindow EXCEPT !.lives = lives, !.level_number = number]
  /\ level = NewLevel
  /\ paddle = Paddle("NormalPaddle")
  /\ balls = [i \in {1} |-> Ball("NormalBall", TRUE)]
  /\ ball_list = <<1>>
  /\ bricks = LevelGrid
  /\ brick_list = DOMAIN bricks
  /\ breakable_brick_list = DOMAIN bricks
  /\ icon_list = <<>>
  /\ bullet_list = 0
  /\ calls = <<>>

\* the frames of free ball i that SpecLevel plays: in flight, below the
\* field, at bricks from below, and on the middle of the paddle from above
LevelScenes(w, i) ==
  {Flying, [Flying EXCEPT !.y = boundary.inner_bottom - 40]}
  \cup {[Flying EXCEPT !.hy = h] : h \in HitLists(w)}
  \cup {[Flying EXCEPT !.x = left(w.paddle) + width(w.paddle.class) \div 2
                              - displacement(w.balls[i].change_x),
                       !.y = top(w.paddle) + 25,
                       !.py = TRUE]}

\* the frames of the balls of level.ball_list, in the order of the list
FrameSeqs(w) ==
  {fs \in [1..Len(w.ball_list) -> UNION {LevelScenes(w, i) : i \in Range(w.ball_list)}] :
      \A k \in 1..Len(w.ball_list) : fs[k] \in LevelScenes(w, w.ball_list[k])}

\* the seconds that a frame can bring
DeltaTimes(w) ==
  IF w.level.lost_a_life \/ w.level.game_over \/ w.level.level_complete
  THEN {0, 1} ELSE {0}

\* n calls of Level.on_draw in a row
RECURSIVE on_draw_frames(_, _)
on_draw_frames(w, n) == IF n = 0 THEN w ELSE on_draw_frames(Level_on_draw(w), n - 1)

\* the state after a frame that leaves the world w, within the bounds
CommitWithin(w) ==
  /\ w.level.elapsed_time <= MaxTime
  /\ Len(w.ball_list) <= MaxBalls
  /\ Commit(forget_places(w))

\* Level.on_update while the window shows the level (the balls and the
\* icons are updated only while the game is active)
LevelTick ==
  /\ window.view = "Level"
  /\ \E dt \in DeltaTimes(World),
        frames \in (IF level.game_is_active THEN FrameSeqs(World) ELSE {<<>>}),
        fates \in (IF level.game_is_active
                   THEN [1..Len(icon_list) -> {"falling", "caught", "lost"}] ELSE {<<>>}),
        qualifies \in (IF level.game_over THEN BOOLEAN ELSE {FALSE}) :
        CommitWithin(
          Level_on_update(World, [TickInput(frames, fates) EXCEPT !.delta_time = dt,
                                                                  !.qualifies = qualifies]))

\* Level.on_draw while the window shows the level
LevelDraw ==
  /\ window.view = "Level"
  /\ Commit(on_draw_frames(World, DrawFrames))

\* SPACE or ESCAPE while the window shows the level
LevelKey ==
  /\ window.view = "Level"
  /\ \E symbol \in {"SPACE", "ESCAPE"} : Commit(Level_on_key_press(World, symbol))

\* PauseMenuView.on_draw
PauseDraw ==
  /\ window.view = "PauseMenuView"
  /\ Commit(on_draw_frames(PauseMenuView_on_draw(World), DrawFrames - 1))

\* ESCAPE in the pause menu
PauseKey ==
  /\ window.view = "PauseMenuView"
  /\ Commit(PauseMenuView_on_key_press(World, "ESCAPE"))

\* LevelOutroView.on_draw
OutroDraw ==
  /\ window.view = "LevelOutroView"
  /\ Commit(on_draw_frames(LevelOutroView_on_draw(World), DrawFrames - 1))

\* LevelOutroView.on_update
OutroUpdate ==
  /\ window.view = "LevelOutroView"
  /\ \E out_of_view \in BOOLEAN, qualifies \in BOOLEAN :
        Commit(LevelOutroView_on_update(World, out_of_view, qualifies))

NextLevel ==
  LevelTick \/ LevelDraw \/ LevelKey \/ PauseDraw \/ PauseKey \/ OutroDraw \/ OutroUpdate

SpecLevel == InitLevel /\ [][NextLevel]_vars

\* C2: a life is lost only by an on_update of the active level that leaves
\* the ball collection empty while breakable bricks remain, and every such
\* on_update loses one (while a ball is left no life is lost); lives goes
\* down by exactly 1 and the level is then in GameOver exactly if lives is 0
\* and in LifeLost otherwise.  LifeLost ends only in an on_update with
\* elapsed_time > PAUSE_TIME + TRANSITION_TIME, and every such on_update
\* ends it: the level then has exactly one ball, a new NormalBall, and a
\* new NormalPaddle, and stays inactive; only SPACE makes a level active.
C2_LifeLossAndRespawn ==
  [][/\ window'.lives # window.lives =>
          /\ window'.lives = window.lives - 1
          /\ window.view = "Level" /\ level.game_is_active
          /\ <<"Level.on_update", 0>> \in Range(calls')
          /\ ball_list' = <<>> /\ breakable_brick_list' # {}
          /\ ~level'.game_is_active
          /\ level'.game_over <=> window'.lives = 0
          /\ level'.lost_a_life <=> window'.lives # 0
     /\ (/\ level.game_is_active
         /\ <<"Level.on_update", 0>> \in Range(calls')
         /\ ball_list' = <<>> /\ breakable_brick_list' # {}) =>
           window'.lives = window.lives - 1
     /\ (level.lost_a_life /\ ~level'.lost_a_life) =>
          /\ <<"Level.on_update", 0>> \in Range(calls')
          /\ level'.elapsed_time > PAUSE_TIME + TRANSITION_TIME
          /\ ball_list = <<>> /\ Len(ball_list') = 1
          /\ balls'[ball_list'[1]] = Ball("NormalBall", TRUE)
          /\ paddle' = Paddle("NormalPaddle")
          /\ ~level'.game_is_active
          /\ window'.lives = window.lives
     /\ (/\ level.lost_a_life
         /\ <<"Level.on_update", 0>> \in Range(calls')
         /\ level'.elapsed_time > PAUSE_TIME + TRANSITION_TIME) =>
           ~level'.lost_a_life
     /\ (level.lost_a_life /\ level'.lost_a_life) => (ball_list' = <<>> /\ paddle' = paddle)
     /\ (~level.game_is_active /\ level'.game_is_active) =>
          /\ <<"Level.game_is_active = True", 0>> \in Range(calls')
          /\ ~level.lost_a_life /\ ~level.game_over
    ]_vars

\* the ball of a new life waits on the new paddle after the pause
C2_Witness ==
  /\ <<"Level.on_update", 0>> \in Range(calls)
  /\ level.elapsed_time > PAUSE_TIME + TRANSITION_TIME
  /\ ~level.lost_a_life /\ ~level.game_over /\ ~level.level_complete
  /\ ~level.game_is_active
  /\ Len(ball_list) = 1
  /\ window.lives \in 1..(MaxLives - 1)

NearWall == 40

\* FullscreenView.add_random_balls: a ball placed at (x, y) with a random
\* angle, every other ball turned round
random_ball(angle, x, y, turned) ==
  LET b == set_velocity([Ball("NormalBall", FALSE) EXCEPT !.velocity_angle = angle])
  IN [b EXCEPT !.center_x = x, !.center_y = y,
               !.change_x = IF turned THEN -b.change_x ELSE b.change_x,
               !.change_y = IF turned THEN -b.change_y ELSE b.change_y]

\* places near the walls of boundary bd, inside it: the four corners, the
\* middle of the side walls and of the top
WallPlaces(bd) ==
  LET xs == {bd.inner_left + 10, bd.inner_left + 13, bd.inner_right - 10, bd.inner_right - 13}
      ys == {bd.inner_bottom + 10, bd.inner_bottom + 13, bd.inner_top - 10, bd.inner_top - 13}
      mx == (bd.inner_left + bd.inner_right) \div 2
      my == (bd.inner_bottom + bd.inner_top) \div 2
  IN (xs \X (ys \cup {my})) \cup ({mx} \X {bd.inner_top - 10, bd.inner_top - 13})

\* the ball has an edge within NearWall of a wall, or is past one
near_wall(b) ==
  LET bd == boundary_of(b.level)
  IN \/ left(b) < bd.inner_left + NearWall
     \/ right(b) > bd.inner_right - NearWall
     \/ bottom(b) < bd.inner_bottom + NearWall
     \/ top(b) > bd.inner_top - NearWall

InitWalls ==
  /\ level = [NewLevel EXCEPT !.game_is_active = TRUE]
  /\ paddle = Paddle("NormalPaddle")
  /\ \/ /\ window = NewWindow
        /\ balls = [i \in {1} |-> Ball("NormalBall", TRUE)]
        /\ bricks = LevelGrid
     \/ /\ window = [NewWindow EXCEPT !.view = "FullscreenView"]
        /\ \E angle \in {45, 59}, place \in WallPlaces(FullscreenBoundary), turned \in BOOLEAN :
              balls = [i \in {1} |-> random_ball(angle, place[1], place[2], turned)]
        /\ bricks = <<>>
  /\ ball_list = <<1>>
  /\ brick_list = DOMAIN bricks
  /\ breakable_brick_list = DOMAIN bricks
  /\ icon_list = <<>>
  /\ bullet_list = 0
  /\ calls = <<>>

\* Ball.on_update of a ball near a wall
WallFrame ==
  \E i \in Range(ball_list) :
     /\ near_wall(balls[i])
     /\ Commit(any_ball_on_update(World, i,
          [Flying EXCEPT !.x = balls[i].center_x, !.y = balls[i].center_y]))

\* the flight of a ball from the open field to a wall
WallFlight ==
  \E i \in Range(ball_list) :
     /\ ~near_wall(balls[i])
     /\ \E place \in WallPlaces(boundary_of(balls[i].level)) :
           Commit([World EXCEPT !.balls[i].center_x = place[1],
                                !.balls[i].center_y = place[2]])

NextWalls == WallFrame \/ WallFlight

SpecWalls == InitWalls /\ [][NextWalls]_vars

\* a ball b after its horizontal and its vertical move, before any collision
moved(b) == [b EXCEPT !.center_x = @ + displacement(b.change_x),
                      !.center_y = @ + displacement(b.change_y)]

\* C11: in a frame of a ball that moves right and whose right edge passes
\* inner_right, the ball ends with right = inner_right and change_x < 0;
\* moving left with its left edge past inner_left, it ends with
\* left = inner_left and change_x > 0; change_x is negated once (it is the
\* opposite of what it was), and a ball that passes no side wall keeps its
\* change_x and its move.
C11_SideWalls ==
  [][\A i \in Range(ball_list) :
        (<<"Ball.on_update", i>> \in Range(calls') /\ i \in Range(ball_list')) =>
          LET b == balls[i]
              bd == boundary_of(b.level)
              after == balls'[i]
          IN /\ (b.change_x > 0 /\ right(moved(b)) > bd.inner_right) =>
                   /\ right(after) = bd.inner_right
                   /\ after.change_x < 0
                   /\ after.change_x = -b.change_x
             /\ (b.change_x < 0 /\ left(moved(b)) < bd.inner_left) =>
                   /\ left(after) = bd.inner_left
                   /\ after.change_x > 0
                   /\ after.change_x = -b.change_x
             /\ (right(moved(b)) <= bd.inner_right /\ left(moved(b)) >= bd.inner_left) =>
                   /\ after.center_x = moved(b).center_x
                   /\ after.change_x = b.change_x
    ]_vars

\* a ball of a level has just been turned back at the right wall
C11_Witness ==
  /\ <<"Ball.on_update", 1>> \in Range(calls)
  /\ ball_list = <<1>>
  /\ balls[1].level
  /\ right(balls[1]) = boundary.inner_right
  /\ balls[1].change_x < 0

\* C12: in a fullscreen boundary a ball whose bottom edge passes
\* inner_bottom ends the frame with bottom = inner_bottom and change_y
\* negated, and no frame removes it from the ball list; in the playing
\* field a frame removes the ball from the ball list exactly when its top
\* edge is below inner_bottom after the move, and a ball that stays and is
\* not at the top keeps its change_y and its move (it does not turn back
\* at the bottom).  DEBUGGING is False in the sources.
C12_BottomPolicy ==
  /\ ~DEBUGGING
  /\ [][\A i \in Range(ball_list) :
          <<"Ball.on_update", i>> \in Range(calls') =>
            LET b == balls[i]
                bd == boundary_of(b.level)
            IN IF bd.is_fullscreen
               THEN /\ i \in Range(ball_list')
                    /\ (top(moved(b)) <= bd.inner_top /\ bottom(moved(b)) < bd.inner_bottom) =>
                          /\ bottom(balls'[i]) = bd.inner_bottom
                          /\ balls'[i].change_y = -b.change_y
               ELSE /\ i \notin Range(ball_list') <=> top(moved(b)) < bd.inner_bottom
                    /\ (i \in Range(ball_list') /\ top(moved(b)) <= bd.inner_top) =>
                          /\ balls'[i].center_y = moved(b).center_y
                          /\ balls'[i].change_y = b.change_y
      ]_vars
  /\ [](\A i \in Range(ball_list) :
          boundary_of(balls[i].level).is_fullscreen =>
            bottom(balls[i]) >= boundary_of(balls[i].level).inner_bottom)

\* a ball of a fullscreen view has just been turned back at the bottom
C12_Witness ==
  /\ <<"Ball.on_update", 1>> \in Range(calls)
  /\ ball_list = <<1>>
  /\ ~balls[1].level
  /\ bottom(balls[1]) = FullscreenBoundary.inner_bottom
  /\ balls[1].change_y > 0

(***************************************************************************)
(* SpecPaddle: the frames of an active level in which the balls meet the   *)
(* paddle, with two icons in flight, while the player moves the paddle     *)
(* and lets the balls go.  The level begins with the paddle where it is    *)
(* at the start or where a run from the start brings it, two frames        *)
(* before a wall; the run of the paddle across the field is not followed.  *)
(* A ball at the minimum speed lands anywhere on the paddle or meets its   *)
(* side, a faster ball is returned with the middle of the paddle; the      *)
(* icons are caught in their order, and the player presses a key only      *)
(* while the paddle holds a ball, and LEFT only near a wall.               *)
(***************************************************************************)
\* the icons in flight when SpecPaddle begins
PaddleIconSupplies == {<<"InvinciBallIcon", "MagneticPaddleIcon">>,
                       <<"InvinciBallIcon", "SplitBallIcon">>,
                       <<"MagneticPaddleIcon", "SplitBallIcon">>,
                       <<"LengthenPaddleIcon", "SplitBallIcon">>}

\* the paddle has an edge within NearWall of a side wall
paddle_near_wall(w) ==
  \/ left(w.paddle) - boundary.inner_left < NearWall
  \/ boundary.inner_right - right(w.paddle) < NearWall

\* where whole frames of LEFT bring the paddle of a new level: the start,
\* and the place two frames before the left wall
PaddlePlaces ==
  LET step == displacement(PADDLE_SPEED)
      start == Paddle("NormalPaddle")
      frames == (left(start) - boundary.inner_left) \div step - 1
  IN {start.center_x - frames * step, start.center_x}

\* the frame of free ball i that comes down on the paddle with its centre
\* at d from the left edge of the paddle, from high (the centre stays above
\* the top of the paddle) or from low
landing(w, i, d, high) ==
  [x |-> left(w.paddle) + d - displacement(w.balls[i].change_x),
   y |-> top(w.paddle) + (IF high THEN 25 ELSE 5),
   hx |-> <<>>, px |-> FALSE, hy |-> <<>>, py |-> TRUE]

\* the frames of ball i that SpecPaddle plays
PaddleScenes(w, i) ==
  LET b == w.balls[i]
      wd == width(w.paddle.class)
  IN IF is_magnetic_ball(b.class) THEN {Flying}
     ELSE {Flying, [Flying EXCEPT !.y = boundary.inner_top - 5]}
          \cup (IF b.change_y < 0 THEN {landing(w, i, wd \div 2, TRUE)} ELSE {})
          \cup (IF b.change_y < 0 /\ b.ball_speed = BALL_MIN_SPEED
                THEN {landing(w, i, d, TRUE) : d \in {5, wd \div 2 - 10}}
                     \cup {landing(w, i, wd + 5, FALSE)}
                ELSE {})
          \cup (IF b.ball_speed = BALL_MIN_SPEED
                THEN {[Flying EXCEPT !.x = x - displacement(b.change_x),
                                     !.y = w.paddle.center_y, !.px = TRUE] :
                        x \in {left(w.paddle) - 5}}
                ELSE {})

InitPaddle ==
  /\ window = NewWindow
  /\ level = [NewLevel EXCEPT !.game_is_active = TRUE]
  /\ \E x \in PaddlePlaces : paddle = [Paddle("NormalPaddle") EXCEPT !.center_x = x]
  /\ balls = [i \in {1} |-> Ball("NormalBall", TRUE)]
  /\ ball_list = <<1>>
  /\ bricks = <<Brick("GreyBrick", 1, 3, "None")>>
  /\ brick_list = {1}
  /\ breakable_brick_list = {1}
  /\ icon_list \in PaddleIconSupplies
  /\ bullet_list = 0
  /\ calls = <<>>

\* a free ball is where the ball of a new life is until its next frame,
\* unless it stands on the top of the paddle
forget_flights(w) ==
  [w EXCEPT !.balls = [i \in DOMAIN w.balls |->
     IF is_magnetic_ball(w.balls[i].class) \/ bottom(w.balls[i]) = top(w.paddle)
     THEN w.balls[i]
     ELSE [w.balls[i] EXCEPT !.center_x = boundary.center_x,
                             !.center_y = boundary.inner_bottom + 80]]]

\* the state after a handler of SpecPaddle that leaves the world w
CommitLanded(w) ==
  /\ Len(w.ball_list) <= MaxBalls
  /\ Commit(forget_flights(w))

\* Level.on_update
PaddleTick ==
  /\ key_change_x(World) # 0 => paddle_near_wall(World)
  /\ \E frames \in {fs \in [1..Len(ball_list) ->
                             UNION {PaddleScenes(World, i) : i \in Range(ball_list)}] :
                      \A k \in 1..Len(ball_list) : fs[k] \in PaddleScenes(World, ball_list[k])},
        fates \in {fs \in [1..Len(icon_list) -> {"falling", "caught"}] :
                     \A k \in 2..Len(icon_list) : fs[k] = "falling"} :
        CommitLanded(Level_on_update(World, TickInput(frames, fates)))

\* Level.on_key_press and Level.on_key_release
PaddleKey ==
  \/ /\ paddle.magnetic_ball_list # <<>>
     /\ \E symbol \in (IF paddle_near_wall(World) THEN {"LEFT", "SPACE"} ELSE {"SPACE"}) :
           Commit(Level_on_key_press(World, symbol))
  \/ Commit(Level_on_key_release(World, "LEFT"))

NextPaddle == PaddleTick \/ PaddleKey

SpecPaddle == InitPaddle /\ [][NextPaddle]_vars

(***************************************************************************)
(* Properties of the ball on the paddle (SpecPaddle).  They are stated on  *)
(* the frame of every free ball that comes down, in every state reached,   *)
(* for the landings at the offsets of Offsets.                             *)
(***************************************************************************)
\* the free balls that come down
coming_down == {i \in Range(ball_list) : ~is_magnetic_ball(balls[i].class) /\ balls[i].change_y < 0}

\* offsets d = center_x - paddle.left of a landing: beyond and at the ends
\* of the paddle, where the angle reaches 70, and around the middle, as far
\* as the ball is between the side walls there
Offsets ==
  LET wd == width(paddle.class)
  IN {d \in {-10, 0, 5, 44, 45, 46, wd - 46, wd - 45, wd - 44, wd - 5, wd, wd + 10}
            \cup ((wd \div 2 - 12)..(wd \div 2 + 12)) :
        /\ left(paddle) + d - 10 >= boundary.inner_left
        /\ left(paddle) + d + 10 <= boundary.inner_right}

\* the world after the frame in which ball i lands on top of the paddle at d
landed(i, d) == any_ball_on_update(World, i, landing(World, i, d, TRUE))

\* the ball that leaves the paddle, or stays on it, after ball i has landed:
\* ball i, or the ball made last from it, which took its place at the end
\* of the ball list
bounced(w, i) == IF i \in Range(w.ball_list) THEN i ELSE w.ball_list[Len(ball_list)]

\* the invincibility step makes a new ball of ball i
converts(i) == (paddle.invincible_balls > 0) # is_invincible(balls[i].class)

\* the speed and the direction of the ball that change_velocity is called
\* on: ball i, or the new ball that the invincibility step made of it at
\* centre x (BALL_MIN_SPEED, to the left iff left of the paddle centre)
speed_before(i) == IF converts(i) THEN BALL_MIN_SPEED ELSE balls[i].ball_speed
to_right_before(i, d) ==
  IF converts(i) THEN ~(left(paddle) + d < paddle.center_x) ELSE balls[i].change_x > 0

clamp(speed) == IF speed > BALL_MAX_SPEED THEN BALL_MAX_SPEED
                ELSE IF speed < BALL_MIN_SPEED THEN BALL_MIN_SPEED ELSE speed

\* C13: with d = center_x - paddle.left and W = paddle.width, the ball
\* that bounces off the top of the paddle in the left zone leaves with
\* velocity_angle = 180 - min(25 + d, 70) and ball_speed =
\* clamp(speed + 40 - d); in the right zone with velocity_angle =
\* min(W - d + 25, 70) and ball_speed = clamp(speed + d - W + 40); with
\* W = 200 and d = 5 the angle is 150 and the speed is 35 more (clamped).
\* The zones are those change_velocity takes, and speed is the speed of
\* the ball change_velocity is called on.
C13_EdgeZones ==
  ~paddle.is_magnetic =>
    \A i \in coming_down, d \in Offsets :
       LET w == landed(i, d)
           b == w.balls[bounced(w, i)]
           wd == width(paddle.class)
       IN /\ d < wd \div 2 - 10 =>
               /\ b.velocity_angle = 180 - (IF 25 + d < 70 THEN 25 + d ELSE 70)
               /\ b.ball_speed = clamp(speed_before(i) + 40 - d)
          /\ d > wd \div 2 + 10 =>
               /\ b.velocity_angle = (IF wd - d + 25 < 70 THEN wd - d + 25 ELSE 70)
               /\ b.ball_speed = clamp(speed_before(i) + d - wd + 40)
          /\ (wd = 200 /\ d = 5) =>
               /\ b.velocity_angle = 150
               /\ b.ball_speed = clamp(speed_before(i) + 35)

\* a ball has just left the long paddle (W = 200) from d = 5: at 150
\* degrees, 35 faster than the minimum speed
C13_Witness ==
  /\ paddle.class = "LongPaddle"
  /\ \E i \in Range(ball_list) :
        /\ <<"Ball.change_properties", i>> \in Range(calls)
        /\ balls[i].center_x - left(paddle) = 5
        /\ bottom(balls[i]) = top(paddle)
        /\ balls[i].velocity_angle = 150
        /\ balls[i].ball_speed = BALL_MIN_SPEED + 35

\* C14: the ball that bounces off the top of the paddle in the middle zone
\* keeps its horizontal direction: it leaves with velocity_angle = 55 if
\* its change_x was > 0 before the hit and with 125 otherwise, and with
\* ball_speed = max(550, speed - 20).  The ball is the one change_velocity
\* is called on: a ball that the invincibility step has just made has the
\* direction change_horizontal_velocity gave it.
C14_MiddleZone ==
  ~paddle.is_magnetic =>
    \A i \in coming_down, d \in Offsets :
       LET w == landed(i, d)
           b == w.balls[bounced(w, i)]
           wd == width(paddle.class)
       IN (wd \div 2 - 10 <= d /\ d <= wd \div 2 + 10) =>
            /\ b.velocity_angle = (IF to_right_before(i, d) THEN 55 ELSE 125)
            /\ b.change_x > 0 <=> to_right_before(i, d)
            /\ b.ball_speed = (IF speed_before(i) - 20 > 550 THEN speed_before(i) - 20 ELSE 550)

\* a ball that came from the right has just left the middle of the paddle
\* to the left, at the minimum speed
C14_Witness ==
  \E i \in Range(ball_list) :
     /\ <<"Ball.change_properties", i>> \in Range(calls)
     /\ balls[i].center_x = paddle.center_x
     /\ bottom(balls[i]) = top(paddle)
     /\ balls[i].class = "NormalBall"
     /\ balls[i].velocity_angle = 125
     /\ balls[i].change_x < 0
     /\ balls[i].ball_speed = BALL_MIN_SPEED

\* ball b leaves the paddle as the left zone, the middle zone and the
\* right zone send a ball that has landed at d
bounces_left(i, d, b) ==
  /\ b.velocity_angle = 180 - (IF 25 + d < 70 THEN 25 + d ELSE 70)
  /\ b.ball_speed = clamp(speed_before(i) + 40 - d)
bounces_middle(i, d, b) ==
  /\ b.velocity_angle = (IF to_right_before(i, d) THEN 55 ELSE 125)
  /\ b.ball_speed = clamp(speed_before(i) - 20)
bounces_right(i, d, b) ==
  /\ b.velocity_angle = (IF width(paddle.class) - d + 25 < 70
                         THEN width(paddle.class) - d + 25 ELSE 70)
  /\ b.ball_speed = clamp(speed_before(i) + d - width(paddle.class) + 40)

\* the zones when the middle zone is W/2 - half <= d <= W/2 + half
zones_are(half) ==
  ~paddle.is_magnetic =>
    \A i \in coming_down, d \in Offsets :
       LET w == landed(i, d)
           b == w.balls[bounced(w, i)]
           wd == width(paddle.class)
       IN /\ bounces_left(i, d, b) <=> d < wd \div 2 - half
          /\ bounces_middle(i, d, b) <=> (wd \div 2 - half <= d /\ d <= wd \div 2 + half)
          /\ bounces_right(i, d, b) <=> d > wd \div 2 + half

\* C15, as the code has it: the middle part of the paddle is 20 wide, so a
\* top hit at offset d is sent as from the left zone iff d < W/2 - 10, as
\* from the middle zone iff W/2 - 10 <= d <= W/2 + 10, and as from the
\* right zone otherwise.
C15_ZoneThresholds == zones_are(10)

\* C15, as the claim has it (m = 10): left zone iff d < W/2 - 5, middle
\* zone iff W/2 - 5 <= d <= W/2 + 5, right zone otherwise.
C15_ThresholdsOfFive == zones_are(5)

\* a ball has landed at d = W/2 - 10 and has left as from the middle zone
C15_Witness ==
  \E i \in Range(ball_list) :
     /\ <<"Ball.change_properties", i>> \in Range(calls)
     /\ balls[i].center_x - left(paddle) = width(paddle.class) \div 2 - 10
     /\ bottom(balls[i]) = top(paddle)
     /\ balls[i].velocity_angle \in {55, 125}
     /\ balls[i].ball_speed = BALL_MIN_SPEED

\* the free balls
free_balls == {i \in Range(ball_list) : ~is_magnetic_ball(balls[i].class)}

\* the places of the centre of a ball that meets the side of the paddle,
\* between the side walls
SidePlaces ==
  {x \in {left(paddle) - 5, paddle.center_x - 3, paddle.center_x, paddle.center_x + 3,
          right(paddle) + 5} :
     x - 10 >= boundary.inner_left /\ x + 10 <= boundary.inner_right}

\* the world after the frame in which ball i overlaps the paddle after its
\* horizontal move, its centre at x, and after its vertical move (low), its
\* centre just below the top of the paddle
side_on(i, x, low) ==
  any_ball_on_update(World, i,
    [x |-> x - displacement(balls[i].change_x),
     y |-> IF low THEN top(paddle) - 1 - displacement(balls[i].change_y) ELSE paddle.center_y,
     hx |-> <<>>, px |-> ~low, hy |-> <<>>, py |-> low])

\* the frame neither lands the ball nor makes or removes a ball nor takes a
\* charge of the paddle
no_landing(w, i) ==
  /\ <<"Ball.change_properties", i>> \notin Range(w.calls)
  /\ w.ball_list = ball_list
  /\ w.balls[i].class = balls[i].class
  /\ w.paddle = paddle

\* C16: a ball that overlaps the paddle after its horizontal move, moving
\* left with its centre left of the paddle centre, gets velocity_angle 195
\* and speed min(speed + 100, 850); moving right with its centre right of
\* the paddle centre, -15 and the same speed; in the other horizontal cases
\* it is put against the edge of the paddle it came to (right = paddle.left
\* moving right, left = paddle.right moving left), change_x is negated and
\* the speed stays.  The two side branches of the vertical pass (a ball
\* coming down with its centre below the top of the paddle and beyond its
\* left or right edge) give 195 and -15 with the same speed.  None of them
\* calls change_properties: no charge is taken, no ball is made.
C16_SideOnPaddle ==
  \A i \in free_balls, x \in SidePlaces :
     LET b0 == balls[i]
         faster == IF b0.ball_speed + 100 < BALL_MAX_SPEED THEN b0.ball_speed + 100
                   ELSE BALL_MAX_SPEED
         w == side_on(i, x, FALSE)
         b == w.balls[i]
         v == side_on(i, x, TRUE)
     IN /\ no_landing(w, i)
        /\ IF b0.change_x < 0 /\ x < paddle.center_x
           THEN b.velocity_angle = 195 /\ b.ball_speed = faster /\ b.center_x = x
           ELSE IF b0.change_x > 0 /\ x > paddle.center_x
           THEN b.velocity_angle = -15 /\ b.ball_speed = faster /\ b.center_x = x
           ELSE /\ b.ball_speed = b0.ball_speed
                /\ b.velocity_angle = b0.velocity_angle
                /\ b.change_x = -b0.change_x
                /\ IF b0.change_x > 0 THEN right(b) = left(paddle) ELSE left(b) = right(paddle)
        /\ (b0.change_y < 0 /\ x < left(paddle)) =>
              /\ no_landing(v, i)
              /\ v.balls[i].velocity_angle = 195 /\ v.balls[i].ball_speed = faster
        /\ (b0.change_y < 0 /\ x > right(paddle)) =>
              /\ no_landing(v, i)
              /\ v.balls[i].velocity_angle = -15 /\ v.balls[i].ball_speed = faster

\* a ball has just met the left side of a paddle that holds charges, and
\* has left at 195 degrees, 100 faster, as it was and alone
C16_Witness ==
  /\ paddle.invincible_balls + paddle.split_balls > 0
  /\ \A c \in Range(calls) : c[1] \in {"Level.on_update", "Ball.on_update", "Brick.update"}
  /\ ball_list = <<1>>
  /\ <<"Ball.on_update", 1>> \in Range(calls)
  /\ <<"Ball.change_properties", 1>> \notin Range(calls)
  /\ balls[1].class = "NormalBall"
  /\ balls[1].velocity_angle = 195
  /\ balls[1].ball_speed = BALL_MIN_SPEED + 100

\* C17: on a landing on the top of the paddle with invincible_balls > 0,
\* a ball that is not invincible is replaced by an InvinciBall (a new ball
\* at its place; the old one leaves the ball list) and the charge is one
\* less; an invincible ball that lands with no charge is replaced by a
\* NormalBall; a ball that is not invincible and lands with no charge
\* stays, as it is (and an invincible ball that lands with a charge stays
\* too).
C17_InvincibilityStep ==
  ~paddle.is_magnetic =>
    \A i \in coming_down, d \in Offsets \cap {5, width(paddle.class) \div 2} :
       LET w == landed(i, d)
           n == bounced(w, i)
           charges == paddle.invincible_balls
           invincible == is_invincible(balls[i].class)
       IN /\ <<"Ball.change_properties", i>> \in Range(w.calls)
          /\ (charges > 0 /\ ~invincible) =>
                /\ i \notin Range(w.ball_list) /\ n # i
                /\ w.balls[n].class = "InvinciBall"
                /\ w.balls[n].center_x = left(paddle) + d /\ bottom(w.balls[n]) = top(paddle)
                /\ w.paddle.invincible_balls = charges - 1
          /\ (charges = 0 /\ invincible) =>
                /\ i \notin Range(w.ball_list) /\ n # i
                /\ w.balls[n].class = "NormalBall"
                /\ w.balls[n].center_x = left(paddle) + d /\ bottom(w.balls[n]) = top(paddle)
                /\ w.paddle.invincible_balls = 0
          /\ (charges = 0 /\ ~invincible) =>
                /\ n = i
                /\ w.balls[i].class = balls[i].class
                /\ w.paddle.invincible_balls = 0
          /\ (charges > 0 /\ invincible) =>
                /\ n = i
                /\ w.balls[i].class = "InvinciBall"

\* the invincible ball has just landed without a charge and is a NormalBall
\* again (the icon in flight is the one that follows the InvinciBallIcon,
\* which gave three charges)
C17_Witness ==
  /\ paddle.invincible_balls = 0
  /\ icon_list = <<"MagneticPaddleIcon">>
  /\ \E i \in Range(ball_list) :
        /\ <<"Ball.change_properties", i>> \in Range(calls)
        /\ bottom(balls[i]) = top(paddle)
        /\ balls[i].class = "NormalBall"
        /\ balls[i].velocity_angle = 55

\* the world after ball i of world w has landed on the top of the paddle
\* at d
lands(w, i, d) == any_ball_on_update(w, i, landing(w, i, d, TRUE))

\* the world after the only ball of world w has landed n times on the
\* middle of the paddle, turning back at the top wall after every landing
RECURSIVE after_landings(_, _)
after_landings(w, n) ==
  IF n = 0 THEN w
  ELSE LET w1 == lands(w, w.ball_list[1], width(w.paddle.class) \div 2)
       IN after_landings(
            any_ball_on_update(w1, w1.ball_list[1], [Flying EXCEPT !.y = boundary.inner_top - 5]),
            n - 1)

\* C18: the InvinciBallIcon gives three charges, and every landing on the
\* top of the paddle with invincible_balls > 0 takes exactly one, whether
\* the ball that lands is invincible or not (with no charge none is
\* taken); so the only ball of a level whose paddle has three charges is
\* invincible after its landings 1, 2 and 3, which leave 2, 1 and 0
\* charges, and is a NormalBall after landing 4.
C18_ThreePaddleHits ==
  /\ \A k \in 1..Len(icon_list) :
        icon_list[k] = "InvinciBallIcon" =>
          Icon_on_update(World, k, "caught").paddle.invincible_balls = paddle.invincible_balls + 3
  /\ \A i \in coming_down, d \in Offsets \cap {5, width(paddle.class) \div 2} :
        lands(World, i, d).paddle.invincible_balls =
          (IF paddle.invincible_balls > 0 THEN paddle.invincible_balls - 1 ELSE 0)
  /\ (/\ Len(ball_list) = 1 /\ ball_list[1] \in coming_down
      /\ paddle.invincible_balls = 3 /\ ~paddle.is_magnetic /\ paddle.split_balls = 0) =>
        /\ \A n \in 1..3 :
              LET w == after_landings(World, n)
              IN /\ Len(w.ball_list) = 1
                 /\ w.balls[w.ball_list[1]].class = "InvinciBall"
                 /\ w.paddle.invincible_balls = 3 - n
        /\ LET w == after_landings(World, 4)
           IN /\ Len(w.ball_list) = 1
              /\ w.balls[w.ball_list[1]].class = "NormalBall"
              /\ w.paddle.invincible_balls = 0

\* the only ball has just landed for the third time since the
\* InvinciBallIcon was caught: no charge is left and the ball is invincible
C18_Witness ==
  /\ icon_list = <<"SplitBallIcon">>
  /\ paddle.split_balls = 0
  /\ paddle.invincible_balls = 0
  /\ ball_list = <<1>>
  /\ <<"Ball.change_properties", 1>> \in Range(calls)
  /\ bottom(balls[1]) = top(paddle)
  /\ balls[1].class = "InvinciBall"

\* the magnetism step of a landing on a magnetic paddle: the ball is
\* replaced by the magnetic ball of the invincibility it has after the
\* invincibility step (invincible iff the paddle had a charge), which is
\* appended to magnetic_ball_list; it is not bounced (it is a new ball at
\* the place of the landing, with the velocity of a new ball) and not split
attaches ==
  paddle.is_magnetic =>
    \A i \in coming_down, d \in Offsets \cap {5, width(paddle.class) \div 2} :
       LET w == lands(World, i, d)
           n == bounced(w, i)
       IN /\ w.balls[n].class = (IF paddle.invincible_balls > 0
                                 THEN "MagneticInviciBall" ELSE "MagneticNormalBall")
          /\ w.paddle.magnetic_ball_list = Append(paddle.magnetic_ball_list, n)
          /\ w.balls[n].center_x = left(paddle) + d /\ bottom(w.balls[n]) = top(paddle)
          /\ w.balls[n].velocity_angle = 45 /\ w.balls[n].ball_speed = BALL_MIN_SPEED
          /\ Len(w.ball_list) = Len(ball_list)
          /\ w.paddle.split_balls = paddle.split_balls

\* a frame of the level in which the free balls fly and the icons fall
\* leaves every ball on the paddle at its height and moves it as far as it
\* moves the paddle
follows_the_paddle ==
  level.game_is_active =>
    LET w == Level_on_update(World, TickInput(<<>>, <<>>))
    IN \A i \in Range(paddle.magnetic_ball_list) :
          /\ w.balls[i].center_y = balls[i].center_y
          /\ w.balls[i].center_x - balls[i].center_x = w.paddle.center_x - paddle.center_x

\* C19: on a landing on the top of a magnetic paddle the ball, after the
\* invincibility step, is replaced by its magnetic counterpart of the same
\* invincibility, which is appended to paddle.magnetic_ball_list, and is
\* neither bounced nor split; while it is attached its Y never changes and
\* its X changes only by the displacement of the paddle under the LEFT and
\* RIGHT keys.
C19_MagnetismStep == attaches /\ follows_the_paddle

\* C20: on a landing on the top of a paddle that is not magnetic and has
\* split_balls > 0, exactly one ball is added to the ball list, of the
\* class and at the place of the ball that bounces, with the opposite
\* change_x and the same change_y, and split_balls is one less; with
\* split_balls = 0, or on a magnetic paddle, no ball is added and
\* split_balls stays.
C20_SplitStep ==
  \A i \in coming_down, d \in Offsets \cap {5, width(paddle.class) \div 2} :
     LET w == lands(World, i, d)
         b == w.balls[bounced(w, i)]
     IN IF ~paddle.is_magnetic /\ paddle.split_balls > 0
        THEN /\ Len(w.ball_list) = Len(ball_list) + 1
             /\ w.paddle.split_balls = paddle.split_balls - 1
             /\ LET new == w.balls[w.ball_list[Len(w.ball_list)]]
                IN /\ w.ball_list[Len(w.ball_list)] \notin DOMAIN balls
                   /\ new.class = b.class
                   /\ new.center_x = b.center_x /\ new.center_y = b.center_y
                   /\ new.change_x = -b.change_x
                   /\ new.change_y = b.change_y
        ELSE /\ Len(w.ball_list) = Len(ball_list)
             /\ w.paddle.split_balls = paddle.split_balls

\* an InvinciBall has just landed and split: it stands on the paddle, and
\* a second InvinciBall (which the walk of the ball list has already moved
\* on) flies to the other side
C20_Witness ==
  /\ ball_list = <<1, 2>>
  /\ paddle.split_balls = 2
  /\ <<"Ball.change_properties", 1>> \in Range(calls)
  /\ balls[1].class = "InvinciBall" /\ balls[2].class = "InvinciBall"
  /\ bottom(balls[1]) = top(paddle)
  /\ balls[2].change_x = -balls[1].change_x
  /\ balls[2].change_y = balls[1].change_y

(***************************************************************************)
(* SpecIcons: the icons that reach the paddle while balls fly, land and    *)
(* stand on it.  A new level begins with its icons in flight; the first    *)
(* icon of the list is caught or lost, the others fall.  The paddle stays  *)
(* where it is, at the start or near the left wall; a free ball flies,     *)
(* turns at the top wall or lands on the paddle: in the middle or, at the  *)
(* minimum speed, near an end; SPACE lets the balls on the paddle go.  The *)
(* paddle is near the wall only in the level of the LengthenPaddleIcon.    *)
(***************************************************************************)
\* the icons in flight when SpecIcons begins
IconSupplies == {<<"InvinciBallIcon", "MagneticPaddleIcon">>,
                 <<"MagneticPaddleIcon", "SplitBallIcon", "InvinciBallIcon">>,
                 <<"MagneticPaddleIcon", "SplitBallIcon", "ShortenPaddleIcon">>,
                 <<"MagneticPaddleIcon", "LengthenPaddleIcon", "ShortenPaddleIcon">>,
                 <<"MagneticPaddleIcon", "SpeedUpBallsIcon", "SlowDownBallsIcon">>}

\* the frames of ball i that SpecIcons plays
IconScenes(w, i) ==
  LET b == w.balls[i]
      wd == width(w.paddle.class)
  IN IF is_magnetic_ball(b.class) THEN {Flying}
     ELSE IF b.change_y > 0 THEN {Flying, [Flying EXCEPT !.y = boundary.inner_top - 5]}
     ELSE {Flying, landing(w, i, wd \div 2, TRUE)}
          \cup (IF b.ball_speed = BALL_MIN_SPEED
                THEN {landing(w, i, d, TRUE) : d \in {5, wd - 5}} ELSE {})

InitIcons ==
  /\ window = NewWindow
  /\ level = [NewLevel EXCEPT !.game_is_active = TRUE]
  /\ icon_list \in IconSupplies
  /\ \E x \in PaddlePlaces :
        /\ x # Paddle("NormalPaddle").center_x => "LengthenPaddleIcon" \in Range(icon_list)
        /\ paddle = [Paddle("NormalPaddle") EXCEPT !.center_x = x]
  /\ balls = [i \in {1} |-> Ball("NormalBall", TRUE)]
  /\ ball_list = <<1>>
  /\ bricks = <<Brick("GreyBrick", 1, 3, "None")>>
  /\ brick_list = {1}
  /\ breakable_brick_list = {1}
  /\ bullet_list = 0
  /\ calls = <<>>

\* Level.on_update
IconTick ==
  \E frames \in {fs \in [1..Len(ball_list) ->
                          UNION {IconScenes(World, i) : i \in Range(ball_list)}] :
                   \A k \in 1..Len(ball_list) : fs[k] \in IconScenes(World, ball_list[k])},
     fates \in {fs \in [1..Len(icon_list) -> {"falling", "caught", "lost"}] :
                  \A k \in 2..Len(icon_list) : fs[k] = "falling"} :
     CommitLanded(Level_on_update(World, TickInput(frames, fates)))

\* Level.on_key_press of SPACE
IconKey ==
  /\ paddle.magnetic_ball_list # <<>>
  /\ CommitLanded(Level_on_key_press(World, "SPACE"))

NextIcons == IconTick \/ IconKey

SpecIcons == InitIcons /\ [][NextIcons]_vars

(***************************************************************************)
(* Properties of the icons (SpecIcons).  They are stated on the handler    *)
(* applied in every state reached: the activation of an icon that reaches  *)
(* the paddle, the landing of a free ball, the release of the balls.       *)
(***************************************************************************)
\* the world after the icons of a sequence have been caught in its order
RECURSIVE caught_in_order(_, _)
caught_in_order(w, icons) ==
  IF icons = <<>> THEN w
  ELSE caught_in_order(activate_icon_property(w, Head(icons)), Tail(icons))

\* the offsets of the landings of SpecIcons, as far as the ball is between
\* the side walls there
IconOffsets == Offsets \cap {5, width(paddle.class) \div 2, width(paddle.class) - 5}

\* C21: when the paddle of a level with one free NormalBall, no charge and
\* no magnet catches the InvinciBallIcon and the MagneticPaddleIcon, in
\* either order, and the ball then lands on the top of the paddle, the ball
\* of the level is a MagneticInviciBall, invincible_balls has gone from 3
\* to 2, the ball is in paddle.magnetic_ball_list and the NormalBall is no
\* longer in the ball list.
C21_BothPickups ==
  (/\ Len(ball_list) = 1 /\ balls[ball_list[1]].class = "NormalBall"
   /\ paddle.invincible_balls = 0 /\ ~paddle.is_magnetic) =>
    \A icons \in {<<"InvinciBallIcon", "MagneticPaddleIcon">>,
                  <<"MagneticPaddleIcon", "InvinciBallIcon">>} :
       \A i \in coming_down, d \in IconOffsets :
          LET w0 == caught_in_order(World, icons)
              w == lands(w0, i, d)
              n == w.ball_list[1]
          IN /\ w0.paddle.invincible_balls = 3
             /\ w0.ball_list = ball_list /\ w0.balls[i].class = "NormalBall"
             /\ Len(w.ball_list) = 1
             /\ w.balls[n].class = "MagneticInviciBall"
             /\ w.paddle.invincible_balls = 2
             /\ w.paddle.magnetic_ball_list = <<n>>
             /\ i \notin Range(w.ball_list)
             /\ \A j \in Range(w.ball_list) : w.balls[j].class # "NormalBall"

\* the ball has landed on the paddle that caught the InvinciBallIcon and
\* then the MagneticPaddleIcon
C21_Witness ==
  /\ icon_list = <<>>
  /\ <<"Ball.change_properties", 1>> \in Range(calls)
  /\ Len(ball_list) = 1
  /\ balls[ball_list[1]].class = "MagneticInviciBall"
  /\ paddle.magnetic_ball_list = ball_list
  /\ paddle.invincible_balls = 2 /\ paddle.is_magnetic
  /\ paddle.split_balls = 0

\* the classes of balls
BallTypes == {"NormalBall", "InvinciBall", "MagneticNormalBall", "MagneticInviciBall"}

\* C22: convert_to of a ball of the ball list leaves the size of the list
\* as it is: it appends exactly one ball, of the target class and at the
\* place of the source, and removes the source (the other balls stay, in
\* their order); the change_x of the new ball is negative when the source
\* is left of the paddle centre.
C22_ConvertTo ==
  \A k \in 1..Len(ball_list), ball_type \in BallTypes :
     LET i == ball_list[k]
         c == convert_to(World, i, ball_type)
         n == c.ball
     IN /\ Len(c.w.ball_list) = Len(ball_list)
        /\ c.w.ball_list = Append(SeqRemove(ball_list, i), n)
        /\ i \notin Range(c.w.ball_list) /\ n \notin Range(ball_list)
        /\ c.w.balls[n].class = ball_type
        /\ c.w.balls[n].center_x = balls[i].center_x
        /\ c.w.balls[n].center_y = balls[i].center_y
        /\ \A j \in Range(ball_list) \ {i} : c.w.balls[j] = balls[j]
        /\ balls[i].center_x < paddle.center_x => c.w.balls[n].change_x < 0

\* a ball that came down left of the middle of the magnetic paddle has
\* been converted and stands there, the only ball of the level
C22_Witness ==
  /\ <<"Ball.change_properties", 1>> \in Range(calls)
  /\ Len(ball_list) = 1
  /\ LET b == balls[ball_list[1]]
     IN /\ b.class = "MagneticNormalBall"
        /\ b.center_x = left(paddle) + 5 /\ bottom(b) = top(paddle)
        /\ b.center_x < paddle.center_x
        /\ b.change_x < 0

\* the world, the paddle left with a number of charges to split
with_split_balls(charges) == [World EXCEPT !.paddle.split_balls = charges]

\* C23: after release_magnetic_balls the magnetic_ball_list is empty; every
\* ball that was on it has left the ball list and a free ball of the same
\* invincibility has taken its place and has been bounced off the paddle by
\* change_velocity, as a ball that lands where it stood; for each of the
\* first released balls, while split_balls > 0, one more ball of the same
\* class is split off with the opposite change_x, and split_balls goes down
\* by one for each split and never below 0.  Stated for the charges that
\* the paddle has and for every number of charges up to those of one icon.
C23_Release ==
  \A charges \in {paddle.split_balls} \cup 0..3 :
  LET w == release_magnetic_balls(with_split_balls(charges))
      held == paddle.magnetic_ball_list
      splits == Min({Len(held), charges})
      free == {i \in Range(ball_list) : i \notin Range(held)}
      made == {i \in Range(w.ball_list) : i \notin Range(ball_list)}
      counterpart(b) == {i \in made :
                           /\ w.balls[i].class = (IF is_invincible(balls[b].class)
                                                  THEN "InvinciBall" ELSE "NormalBall")
                           /\ w.balls[i].center_x = balls[b].center_x
                           /\ w.balls[i].center_y = balls[b].center_y
                           /\ w.balls[i] =
                                LET c == convert_to(World, b, w.balls[i].class)
                                IN change_velocity(c.w, c.ball).balls[c.ball]}
  IN /\ w.paddle.magnetic_ball_list = <<>>
     /\ \A b \in Range(held) : b \notin Range(w.ball_list) /\ counterpart(b) # {}
     /\ \A i \in free : i \in Range(w.ball_list) /\ w.balls[i] = balls[i]
     /\ \A i \in made : ~is_magnetic_ball(w.balls[i].class)
     /\ Cardinality(made) = Len(held) + splits
     /\ Len(w.ball_list) = Len(ball_list) + splits
     /\ w.paddle.split_balls = charges - splits
     /\ w.paddle.split_balls >= 0
     /\ \A k \in 1..Len(held) :
           LET at == {i \in made : /\ w.balls[i].center_x = balls[held[k]].center_x
                                   /\ w.balls[i].center_y = balls[held[k]].center_y}
           IN \/ Cardinality({j \in 1..Len(held) :
                                /\ balls[held[j]].center_x = balls[held[k]].center_x
                                /\ balls[held[j]].center_y = balls[held[k]].center_y}) > 1
              \/ IF k <= charges
                 THEN \E a, b \in at : /\ a # b /\ at = {a, b}
                                       /\ w.balls[a].class = w.balls[b].class
                                       /\ w.balls[a].change_x = -w.balls[b].change_x
                                       /\ w.balls[a].change_y = w.balls[b].change_y
                 ELSE Cardinality(at) = 1

\* SPACE has let go the ball that stood on the magnetic paddle, which had
\* three charges to split: two balls leave the paddle
C23_Witness ==
  /\ paddle.is_magnetic /\ paddle.magnetic_ball_list = <<>>
  /\ paddle.split_balls = 2
  /\ \A c \in Range(calls) : c[1] # "Ball.change_properties"
  /\ Len(ball_list) = 2
  /\ LET a == balls[ball_list[1]]
         b == balls[ball_list[2]]
     IN /\ a.class = "NormalBall" /\ b.class = "NormalBall"
        /\ bottom(a) = top(paddle) /\ bottom(b) = top(paddle)
        /\ a.center_x = b.center_x
        /\ a.change_y > 0 /\ b.change_y = a.change_y /\ b.change_x = -a.change_x

\* the number of entries of a call log that are equal to c
times_logged(log, c) == Cardinality({k \in 1..Len(log) : log[k] = c})

\* Icon.on_update of the k-th icon in flight, in the state reached: caught,
\* it is activated once and removed in that update; lost below the field,
\* it is removed and not activated; falling, it stays and is not activated
icon_update_once ==
  \A k \in 1..Len(icon_list), fate \in {"falling", "caught", "lost"} :
     LET w == Icon_on_update(World, k, fate)
         activations == times_logged(w.calls, <<icon_list[k], 0>>)
         gone == /\ Len(w.icon_list) = Len(icon_list) - 1
                 /\ \A j \in 1..Len(w.icon_list) :
                       w.icon_list[j] = icon_list[IF j < k THEN j ELSE j + 1]
     IN /\ fate = "caught" => activations = 1 /\ gone
        /\ fate = "lost" => activations = 0 /\ gone
        /\ fate = "falling" => activations = 0 /\ w.icon_list = icon_list
        /\ \A c \in Range(w.calls) : c[1] \in Range(icon_list) => c = <<icon_list[k], 0>>

\* a step of the level activates an icon at most once, activates only an
\* icon that was in flight and is not any more, and brings no icon back
icon_never_again ==
  \A c \in UNION {Range(icons) : icons \in IconSupplies} :
     /\ times_logged(calls', <<c, 0>>) <= 1
     /\ <<c, 0>> \in Range(calls') => c \in Range(icon_list) /\ c \notin Range(icon_list')
     /\ c \in Range(icon_list') => c \in Range(icon_list)

\* C24: activate_icon_property of an icon is called at most once over its
\* life: exactly once in the update in which it overlaps the paddle, which
\* removes it, so that it is never updated again; an icon that leaves below
\* inner_bottom is removed without having been activated.
C24_ActivatedOnce == [](icon_update_once) /\ [][icon_never_again]_vars

\* the MagneticPaddleIcon has been lost and the SplitBallIcon caught
C24_Witness ==
  /\ icon_list = <<"InvinciBallIcon">>
  /\ ~paddle.is_magnetic
  /\ paddle.split_balls = 3
  /\ times_logged(calls, <<"SplitBallIcon", 0>>) = 1

\* C25: after InvinciBallIcon.activate_icon_property every ball in
\* paddle.magnetic_ball_list is a MagneticInviciBall, however many balls
\* are on the paddle.
C25_AllInvincible ==
  <<"InvinciBallIcon", 0>> \in Range(calls) =>
    \A b \in Range(paddle.magnetic_ball_list) : balls[b].class = "MagneticInviciBall"

\* the balls that the paddle holds beyond its ends
overhanging(w) ==
  {b \in Range(w.paddle.magnetic_ball_list) :
     w.balls[b].center_x < left(w.paddle) \/ w.balls[b].center_x > right(w.paddle)}

\* C26: after ShortenPaddleIcon.activate_icon_property no ball that is left
\* in paddle.magnetic_ball_list has its centre left of paddle.left or right
\* of paddle.right of the shortened paddle, however many balls are on the
\* paddle, and every free ball of the level that stands at the height of the
\* balls on the paddle, where the evicted balls are put, falls straight down
\* (velocity_angle -90).
C26_NoneOverhangs ==
  <<"ShortenPaddleIcon", 0>> \in Range(calls) =>
    /\ overhanging(World) = {}
    /\ \A i \in Range(ball_list) :
          (/\ ~is_magnetic_ball(balls[i].class)
           /\ bottom(balls[i]) = top(paddle)
           /\ <<"Ball.change_properties", i>> \notin Range(calls))
          => balls[i].velocity_angle = -90 /\ balls[i].change_y < 0

\* the class of the paddle after the LengthenPaddleIcon and after the
\* ShortenPaddleIcon, as C27 gives them
longer(class) == IF class = "ShortPaddle" THEN "NormalPaddle" ELSE "LongPaddle"
shorter(class) == IF class = "LongPaddle" THEN "NormalPaddle" ELSE "ShortPaddle"

\* the paddle of world w has the properties of the paddle of the state but
\* its class, its place and the balls on it
same_properties(w) ==
  /\ w.paddle.center_y = paddle.center_y
  /\ w.paddle.is_magnetic = paddle.is_magnetic
  /\ w.paddle.activate_shooter = paddle.activate_shooter
  /\ w.paddle.invincible_balls = paddle.invincible_balls
  /\ w.paddle.split_balls = paddle.split_balls

\* C27: the LengthenPaddleIcon turns a ShortPaddle into a NormalPaddle and
\* a NormalPaddle or a LongPaddle into a LongPaddle; the ShortenPaddleIcon
\* turns a LongPaddle into a NormalPaddle and a NormalPaddle or a
\* ShortPaddle into a ShortPaddle.  The new paddle has the position,
\* is_magnetic, activate_shooter, invincible_balls, split_balls and
\* magnetic_ball_list of the old one, except that a lengthened paddle that
\* would pass a side wall is put against it, and that balls which overhang
\* the shortened paddle may have left its list.
C27_PaddleSizes ==
  /\ LET w == activate_icon_property(World, "LengthenPaddleIcon")
         wide == [paddle EXCEPT !.class = longer(paddle.class)]
     IN /\ w.paddle.class = longer(paddle.class)
        /\ same_properties(w)
        /\ w.paddle.magnetic_ball_list = paddle.magnetic_ball_list
        /\ IF left(wide) < boundary.inner_left THEN left(w.paddle) = boundary.inner_left
           ELSE IF right(wide) > boundary.inner_right
           THEN right(w.paddle) = boundary.inner_right
           ELSE w.paddle.center_x = paddle.center_x
  /\ LET w == activate_icon_property(World, "ShortenPaddleIcon")
         held == paddle.magnetic_ball_list
     IN /\ w.paddle.class = shorter(paddle.class)
        /\ same_properties(w)
        /\ w.paddle.center_x = paddle.center_x
        /\ \A b \in Range(held) :
              \/ b \in Range(w.paddle.magnetic_ball_list)
              \/ balls[b].center_x < left(w.paddle) \/ balls[b].center_x > right(w.paddle)
        /\ \E kept \in SUBSET (1..Len(held)) :
              w.paddle.magnetic_ball_list = SelectSeq(held, LAMBDA b : \E k \in kept : held[k] = b)

\* the paddle near the left wall has caught the LengthenPaddleIcon with a
\* ball on it, and has been put against the wall
C27_Witness ==
  /\ <<"LengthenPaddleIcon", 0>> \in Range(calls)
  /\ paddle.class = "LongPaddle"
  /\ left(paddle) = boundary.inner_left
  /\ paddle.is_magnetic /\ Len(paddle.magnetic_ball_list) = 1
  /\ icon_list = <<"ShortenPaddleIcon">>

\* -1, 0 or 1 as x is negative, zero or positive
sign(x) == IF x < 0 THEN -1 ELSE IF x > 0 THEN 1 ELSE 0

\* speeds of a ball at and near the limits
SomeSpeeds == {BALL_MIN_SPEED, BALL_MIN_SPEED + 10, BALL_MIN_SPEED + 50,
               BALL_MAX_SPEED - 50, BALL_MAX_SPEED - 40, BALL_MAX_SPEED}

\* change_speed of every ball of the ball list, at its speed and at the
\* speeds of SomeSpeeds, sets the speed as C28 gives
\* it, and keeps the signs of the components of the velocity that are in
\* components (all of them, or those that are not zero)
speed_changes(components) ==
  \A i \in Range(ball_list) : \A speed \in {balls[i].ball_speed} \cup SomeSpeeds :
     LET a == [balls[i] EXCEPT !.ball_speed = speed]
         w == [World EXCEPT !.balls[i] = a]
         faster == change_speed(w, i, "increase").balls[i]
         slower == change_speed(w, i, "decrease").balls[i]
     IN /\ faster.ball_speed = Min({a.ball_speed + 50, 850})
        /\ slower.ball_speed = -Min({-(a.ball_speed - 50), -550})
        /\ \A b \in {faster, slower} :
              /\ sign(a.change_x) \in components => sign(b.change_x) = sign(a.change_x)
              /\ sign(a.change_y) \in components => sign(b.change_y) = sign(a.change_y)

\* the SpeedUpBallsIcon switches the magnet off and lets the balls on the
\* paddle go before it speeds up every ball of the level, the released ones
\* too; the SlowDownBallsIcon slows every ball down and leaves the paddle
speed_icons ==
  /\ LET w == activate_icon_property(World, "SpeedUpBallsIcon")
         released == release_magnetic_balls(World)
     IN /\ ~w.paddle.is_magnetic /\ w.paddle.magnetic_ball_list = <<>>
        /\ w.ball_list = released.ball_list
        /\ \A i \in Range(w.ball_list) :
              /\ ~is_magnetic_ball(w.balls[i].class)
              /\ w.balls[i].ball_speed = Min({released.balls[i].ball_speed + 50, 850})
  /\ LET w == activate_icon_property(World, "SlowDownBallsIcon")
     IN /\ w.paddle = paddle /\ w.ball_list = ball_list
        /\ \A i \in Range(ball_list) :
              w.balls[i].ball_speed = -Min({-(balls[i].ball_speed - 50), -550})

AfterGameOver == {"NameEntryView", "HighScoreView"}

after_outro(qualifies) ==
  IF window.level_number = 30
  THEN (IF qualifies THEN "NameEntryView" ELSE "HighScoreView")
  ELSE "NextLevel"

\* C30: when the outro of level 30, the last level defined, has moved out
\* of view, no fault is raised: the window shows the name-entry view if the
\* score is higher than the lowest high score kept and the high-score view
\* otherwise, and level_number stays; the outro of an earlier level n shows
\* level n + 1, and level_number becomes n + 1.
C30_LastLevel ==
  /\ [](window.view = "LevelOutroView" =>
          \A qualifies \in BOOLEAN :
             LET w == LevelOutroView_on_update(World, TRUE, qualifies)
             IN /\ w.window.view = after_outro(qualifies)
                /\ w.window.level_number =
                     IF window.level_number = 30 THEN 30 ELSE window.level_number + 1)
  /\ [][(window.view = "LevelOutroView" /\ window'.view # "LevelOutroView") =>
           /\ window'.view \in {after_outro(TRUE), after_outro(FALSE)}
           /\ window'.level_number =
                IF window.level_number = 30 THEN 30 ELSE window.level_number + 1
           /\ window'.level_number <= 30
           /\ window'.score = window.score /\ window'.lives = window.lives
       ]_vars

\* the outro of level 30 has handed the window to the name-entry view
C30_Witness ==
  /\ window.view = "NameEntryView"
  /\ window.level_number = 30
  /\ level.level_complete /\ level.load_next_level /\ ~level.game_over

(***************************************************************************)
(* Properties of the bricks (SpecBrick)                                    *)
(***************************************************************************)
\* the objects that an entry of the given name in a call log is about
logged(c, name) == {c[k][2] : k \in {j \in 1..Len(c) : c[j][1] = name}}

\* how many entries <<name, x>> a call log has
times(c, name, x) == Cardinality({k \in 1..Len(c) : c[k] = <<name, x>>})

RECURSIVE Sum(_, _)
Sum(f, S) == IF S = {} THEN 0
             ELSE LET x == Min(S) IN f[x] + Sum(f, S \ {x})

\* by how many stages brick b advances in a step
advance(b) == bricks'[b].cur_texture_index - bricks[b].cur_texture_index

\* C6: while the has_been_hit latch of a breakable brick is set, no call of
\* change_properties (from either pass of a ball, or from a bullet) advances
\* its stage or adds to the score: a step advances a brick by at most one
\* stage, only from an unset latch, sets the latch when it does, and adds to
\* the window score the value of each brick it advances, once.
C6_SingleAwardPerOverlap ==
  [][/\ \A b \in DOMAIN bricks :
           /\ advance(b) \in {0, 1}
           /\ bricks[b].has_been_hit => advance(b) = 0
           /\ advance(b) = 1 => bricks'[b].has_been_hit
           /\ times(calls', "window.score +=", b) = advance(b)
     /\ window'.score - window.score =
          Sum([b \in DOMAIN bricks |-> advance(b) * bricks[b].score], DOMAIN bricks)]_vars

\* a breakable brick whose latch is set has just received change_properties
\* again, without an award
C6_Witness ==
  \E b \in brick_list :
     /\ bricks[b].is_breakable /\ bricks[b].has_been_hit
     /\ b \in logged(calls, "Brick.change_properties")
     /\ b \notin logged(calls, "window.score +=")

\* C7: the latch of a brick is cleared only by a Brick.update that finds the
\* brick overlapping no ball and no bullet; a breakable brick of k stages is
\* in the brick collection (and, unless it is the safety barrier, in the
\* breakable-brick collection) exactly until its k-th award; and the score
\* holds one value of the brick per award, k values once it is removed.
C7_StageProgression ==
  /\ [][\A b \in DOMAIN bricks :
          bricks[b].has_been_hit /\ ~bricks'[b].has_been_hit =>
            /\ b \in logged(calls', "Brick.update")
            /\ b \notin logged(calls', "collides_with_list")]_vars
  /\ [](\A b \in DOMAIN bricks :
          /\ bricks[b].cur_texture_index \in 0..ntextures(bricks[b].class)
          /\ b \in brick_list <=> bricks[b].cur_texture_index < ntextures(bricks[b].class)
          /\ b \in breakable_brick_list <=>
               /\ bricks[b].is_breakable /\ ~bricks[b].is_safety_barrier
               /\ bricks[b].cur_texture_index < ntextures(bricks[b].class))
  /\ [](window.score =
          Sum([b \in DOMAIN bricks |-> bricks[b].cur_texture_index * bricks[b].score],
              DOMAIN bricks))

\* a brick of four stages has gone with its fourth award
C7_Witness ==
  \E b \in DOMAIN bricks :
     /\ ntextures(bricks[b].class) = 4
     /\ b \notin brick_list /\ b \notin breakable_brick_list
     /\ bricks[b].cur_texture_index = 4
     /\ window.score >= 4 * bricks[b].score
     /\ b \in logged(calls, "window.score +=")

\* C8: an unbreakable brick never changes, whatever hits it, and a pass in
\* which only unbreakable bricks receive change_properties leaves the bricks,
\* the two brick collections, the window score, the bonus letters and the
\* icons in flight as they were.
C8_UnbreakableUnaffected ==
  [][/\ \A b \in DOMAIN bricks :
           ~bricks[b].is_breakable =>
              /\ bricks'[b] = bricks[b]
              /\ b \in brick_list => b \in brick_list'
     /\ (/\ logged(calls', "Brick.change_properties") # {}
         /\ \A b \in logged(calls', "Brick.change_properties") : ~bricks[b].is_breakable)
        => /\ bricks' = bricks
           /\ brick_list' = brick_list
           /\ breakable_brick_list' = breakable_brick_list
           /\ window'.score = window.score
           /\ level'.bonus_collection_order = level.bonus_collection_order
           /\ icon_list' = icon_list]_vars

\* an unbreakable brick has just received change_properties, after the
\* score has begun to count
C8_Witness ==
  /\ \E b \in logged(calls, "Brick.change_properties") : ~bricks[b].is_breakable
  /\ \A b \in logged(calls, "Brick.change_properties") : ~bricks[b].is_breakable
  /\ window.score > 0

\* what a brick pass of ball i, answered with hit_list, must do to the bricks
\* when the ball has a level: one change_properties per brick of the hit list
every_brick_is_hit(w, r, i, hit_list) ==
  w.balls[i].level =>
     /\ logged(r.calls, "Brick.change_properties") = Range(hit_list)
     /\ \A b \in Range(hit_list) : times(r.calls, "Brick.change_properties", b) = 1

\* C9: a brick pass of a Normal ball that overlaps n >= 1 bricks negates the
\* velocity component of its axis at most once, and exactly once when the
\* first brick of the hit list is not a safety barrier; the other component
\* is kept; every brick of the hit list receives change_properties once when
\* the ball has a level.
C9_NormalBallAgainstBricks ==
  \A i \in Range(ball_list), hit_list \in HitLists(World) \ {<<>>} :
     balls[i].class = "NormalBall" =>
        LET x == collides_with_brick_moving_horizontally(World, i, hit_list)
            y == collides_with_brick_moving_vertically(World, i, hit_list)
            first == bricks[hit_list[1]]
        IN /\ x.balls[i].change_x \in {balls[i].change_x, -balls[i].change_x}
           /\ ~first.is_safety_barrier => x.balls[i].change_x = -balls[i].change_x
           /\ x.balls[i].change_y = balls[i].change_y
           /\ y.balls[i].change_y = -balls[i].change_y
           /\ y.balls[i].change_x = balls[i].change_x
           /\ every_brick_is_hit(World, x, i, hit_list)
           /\ every_brick_is_hit(World, y, i, hit_list)

\* a Normal ball has turned at two bricks at once, and both were awarded
C9_Witness ==
  \E i \in Range(ball_list) :
     /\ balls[i].class = "NormalBall"
     /\ balls[i].change_x < 0
     /\ Cardinality(logged(calls, "Brick.change_properties")) = 2
     /\ Cardinality(logged(calls, "window.score +=")) = 2

\* C10: a brick pass of an Invincible ball negates the velocity component of
\* its axis only if a brick of the hit list is unbreakable or a safety
\* barrier, and then once; when every brick of the hit list is breakable and
\* no safety barrier the ball is left as it was, velocity and position; in
\* both cases every brick of the hit list receives change_properties once.
C10_InvinciBallAgainstBricks ==
  \A i \in Range(ball_list), hit_list \in HitLists(World) \ {<<>>} :
     balls[i].class = "InvinciBall" =>
        LET x == collides_with_brick_moving_horizontally(World, i, hit_list)
            y == collides_with_brick_moving_vertically(World, i, hit_list)
            solid == \E b \in Range(hit_list) :
                        ~bricks[b].is_breakable \/ bricks[b].is_safety_barrier
        IN /\ x.balls[i].change_x \in {balls[i].change_x, -balls[i].change_x}
           /\ y.balls[i].change_y \in {balls[i].change_y, -balls[i].change_y}
           /\ x.balls[i].change_y = balls[i].change_y
           /\ y.balls[i].change_x = balls[i].change_x
           /\ ~solid => x.balls[i] = balls[i] /\ y.balls[i] = balls[i]
           /\ every_brick_is_hit(World, x, i, hit_list)
           /\ every_brick_is_hit(World, y, i, hit_list)

\* an Invincible ball has gone through two breakable bricks at once: both
\* were awarded and the ball is where and as it was made
C10_Witness ==
  \E i \in Range(ball_list) :
     /\ balls[i] = Ball("InvinciBall", TRUE)
     /\ Cardinality(logged(calls, "window.score +=")) = 2
     /\ \A b \in logged(calls, "Brick.change_properties") :
           bricks[b].is_breakable /\ ~bricks[b].is_safety_barrier

(***************************************************************************)
(* The release of the icons (SpecBrick)                                    *)
(***************************************************************************)
\* the bricks whose icon a step puts into level.icon_list
released == {b \in DOMAIN bricks : bricks[b].icon # "None" /\ bricks'[b].icon = "None"}

\* the hits of a step that count: Brick.change_properties of a breakable
\* brick whose latch was clear
counted == {b \in DOMAIN bricks : <<"window.score +=", b>> \in Range(calls')}

\* a step adds to level.icon_list the icons of the bricks that release
\* theirs, and no brick gets an icon back: a brick releases at most once
released_once ==
  /\ \A b \in DOMAIN bricks : bricks[b].icon = "None" => bricks'[b].icon = "None"
  /\ Len(icon_list') = Len(icon_list) + Cardinality(released)
  /\ \A k \in 1..Len(icon_list) : icon_list'[k] = icon_list[k]
  /\ \A b \in released :
        \E k \in (Len(icon_list) + 1)..Len(icon_list') : icon_list'[k] = bricks[b].icon

\* C31 as the code has it: a brick releases its icon in the first hit that
\* counts on it (a hit of a breakable brick whose has_been_hit is clear),
\* whether that hit destroys the brick or leaves it stages: a multi-stage
\* brick has released its icon after its first hit.  Each brick releases
\* its icon at most once.
C31_ReleasedOnFirstHit ==
  [][/\ released_once
     /\ \A b \in released :
           /\ b \in counted
           /\ bricks[b].cur_texture_index = 0 /\ bricks'[b].cur_texture_index = 1
           /\ b \in brick_list' <=> ntextures(bricks[b].class) > 1
     /\ \A b \in counted : bricks'[b].icon = "None"
    ]_vars

\* C31 as claimed: a brick releases its icon only in the hit that destroys
\* it, and at most once.
C31_ReleasedOnLastHit ==
  [][/\ released_once
     /\ \A b \in released : b \in brick_list /\ b \notin brick_list'
    ]_vars

\* the brick of four stages has been hit once: it stands, and its icon falls
C31_Witness ==
  /\ bricks[1].class = "MultiColouredBrick4"
  /\ bricks[1].cur_texture_index = 1
  /\ 1 \in brick_list /\ 1 \in breakable_brick_list
  /\ bricks[1].icon = "None"
  /\ icon_list = <<"SplitBallIcon">>
  /\ <<"window.score +=", 1>> \in Range(calls)

(***************************************************************************)
(* The safety barrier (SpecBrick)                                          *)
(***************************************************************************)
\* the safety barriers standing in the level
barriers(w) == {b \in w.brick_list : w.bricks[b].is_safety_barrier}

\* the bricks of a hit list that a hit counts on, their points, and those
\* of them that the hit removes
counts_on(w, hit_list) ==
  {b \in Range(hit_list) : w.bricks[b].is_breakable /\ ~w.bricks[b].has_been_hit}
points(w, hit_list) ==
  LET S == counts_on(w, hit_list) IN Sum([b \in S |-> w.bricks[b].score], S)
destroys(w, hit_list) ==
  {b \in counts_on(w, hit_list) :
     w.bricks[b].cur_texture_index + 1 >= ntextures(w.bricks[b].class)}

\* C32: a ball of a level (NormalBall or InvinciBall) that comes down on a
\* safety barrier in its vertical pass, alone or with other bricks, has
\* change_y negated; the hit takes the barrier out of level.brick_list and
\* adds to the score what the other bricks of the hit are worth, the barrier
\* 0.  No safety barrier is in level.breakable_brick_list, neither at the
\* catch of a SafetyBarrierIcon nor after a hit: a barrier standing or
\* falling leaves that list as the other bricks of the hit leave it.
C32_SafetyBarrier ==
  /\ \A b \in breakable_brick_list : ~bricks[b].is_safety_barrier
  /\ LET w == activate_icon_property(World, "SafetyBarrierIcon")
     IN /\ barriers(w) # {} /\ barriers(w) \ barriers(World) # {}
        /\ w.breakable_brick_list = breakable_brick_list
  /\ \A i \in Range(ball_list), hit_list \in HitLists(World) :
        \A b \in barriers(World) \cap Range(hit_list) :
           (balls[i].level /\ balls[i].change_y < 0
              /\ balls[i].class \in {"NormalBall", "InvinciBall"})
           => LET w == collides_with_brick_moving_vertically(World, i, hit_list)
                  others == SelectSeq(hit_list, LAMBDA c : c # b)
              IN /\ w.balls[i].change_y = -balls[i].change_y
                 /\ w.balls[i].change_y > 0
                 /\ b \notin w.brick_list
                 /\ bricks[b].score = 0
                 /\ w.window.score = window.score + points(World, others)
                 /\ w.breakable_brick_list = breakable_brick_list \ destroys(World, others)

\* a ball has come down on the barrier: it goes up, the barrier is gone,
\* the score is what it was and the breakable bricks still stand
C32_Witness ==
  /\ barriers(World) = {}
  /\ <<"Brick.change_properties", 4>> \in Range(calls)
  /\ <<"window.score +=", 4>> \in Range(calls)
  /\ Len(calls) = 2
  /\ window.score = 0
  /\ ball_list # <<>> /\ balls[ball_list[1]].change_y > 0
  /\ breakable_brick_list = {1, 3}

(***************************************************************************)
(* The phases of a level (SpecLevel)                                       *)
(***************************************************************************)
\* the pauses that a level is in
phases(l) == {p \in {"LifeLost", "GameOver", "LevelComplete"} :
                \/ p = "LifeLost" /\ l.lost_a_life
                \/ p = "GameOver" /\ l.game_over
                \/ p = "LevelComplete" /\ l.level_complete}

\* C33: at most one of lost_a_life, game_over and level_complete is true,
\* and game_is_active is false whenever one of them is true.
C33_OnePhase ==
  /\ Cardinality(phases(level)) <= 1
  /\ phases(level) # {} => ~level.game_is_active

\* C34: the on_update that ends the pause of a lost life (lost_a_life goes
\* from true to false) leaves a NormalPaddle with is_magnetic and
\* activate_shooter false, invincible_balls = 0, split_balls = 0 and an
\* empty magnetic_ball_list, and a ball_list of exactly one ball, a
\* NormalBall of the level that is not on the paddle.
C34_Respawn ==
  [][(level.lost_a_life /\ ~level'.lost_a_life) =>
       /\ paddle'.class = "NormalPaddle"
       /\ ~paddle'.is_magnetic /\ ~paddle'.activate_shooter
       /\ paddle'.invincible_balls = 0 /\ paddle'.split_balls = 0
       /\ paddle'.magnetic_ball_list = <<>>
       /\ Len(ball_list') = 1
       /\ balls'[ball_list'[1]].class = "NormalBall"
       /\ balls'[ball_list'[1]].level
       /\ ball_list = <<>>
    ]_vars

\* a new ball after the life was lost with the charges of a SplitBallIcon
\* on the paddle: the pause is over, the game waits for SPACE
C34_Witness ==
  /\ <<"Level.on_update", 0>> \in Range(calls)
  /\ phases(level) = {} /\ ~level.game_is_active
  /\ level.elapsed_time > PAUSE_TIME + TRANSITION_TIME
  /\ Len(ball_list) = 1 /\ balls[ball_list[1]].class = "NormalBall"
  /\ paddle = Paddle("NormalPaddle")
  /\ bricks[1].icon = "None" /\ icon_list = <<>>
  /\ 1 \notin brick_list /\ 2 \in brick_list

\* C35: level_is_complete runs at most once in a Level: no on_update calls
\* it twice, and none calls it in a level that is complete already, also
\* when an AdvanceLevelIcon is caught in the frame that destroys the last
\* breakable brick; so 100 x lives is added to bonus_score once.
C35_CompleteOnce ==
  /\ [](times_logged(calls, <<"Level.level_is_complete", 0>>) <= 1)
  /\ [][level.level_complete => <<"Level.level_is_complete", 0>> \notin Range(calls')]_vars

(***************************************************************************)
(* The counters of the paddle (SpecIcons)                                  *)
(***************************************************************************)
\* the balls that one ball becomes with the charges of the two
\* SplitBallIcons of a level (Level29 has two, a MagneticPaddleIcon and an
\* InvinciBallIcon): 1 + 2 * 3
MaxOnPaddle == 7

\* the world with n MagneticNormalBalls on the magnetic paddle and no other
\* ball, the paddle left with a number of charges to split
with_balls_on_paddle(n, charges) ==
  [World EXCEPT
     !.balls = [i \in 1..n |->
                  [set_bottom(Ball("MagneticNormalBall", TRUE), top(paddle))
                     EXCEPT !.center_x = paddle.center_x]],
     !.ball_list = [i \in 1..n |-> i],
     !.paddle.is_magnetic = TRUE,
     !.paddle.magnetic_ball_list = [i \in 1..n |-> i],
     !.paddle.split_balls = charges]

\* C36: paddle.invincible_balls >= 0 and paddle.split_balls >= 0, in every
\* state reached and after the catch of an InvinciBallIcon, of a
\* SplitBallIcon and the release with SPACE, for every number of balls on
\* the paddle that the charges of a level can make.
C36_Counters ==
  /\ paddle.invincible_balls >= 0 /\ paddle.split_balls >= 0
  /\ \A n \in 0..MaxOnPaddle, charges \in {0, 1, 3, 6},
        icon \in {"InvinciBallIcon", "SplitBallIcon"} :
        LET caught == activate_icon_property(with_balls_on_paddle(n, charges), icon)
            after == release_magnetic_balls(caught)
        IN /\ caught.paddle.invincible_balls >= 0 /\ caught.paddle.split_balls >= 0
           /\ after.paddle.invincible_balls >= 0 /\ after.paddle.split_balls >= 0

(***************************************************************************)
(* The balls on the paddle (SpecIcons)                                     *)
(***************************************************************************)
\* in w, paddle.magnetic_ball_list holds the magnetic balls of
\* level.ball_list and no other ball, each of them once
holds_the_magnetic_balls(w) ==
  /\ Range(w.paddle.magnetic_ball_list)
       = {i \in Range(w.ball_list) : is_magnetic_ball(w.balls[i].class)}
  /\ \A j, k \in 1..Len(w.paddle.magnetic_ball_list) :
        w.paddle.magnetic_ball_list[j] = w.paddle.magnetic_ball_list[k] => j = k

\* C37: while the game is active, paddle.magnetic_ball_list holds the
\* magnetic balls (MagneticNormalBall, MagneticInviciBall) of
\* level.ball_list and no other ball, each of them once: in every state
\* reached, and after the catch of an InvinciBallIcon or a
\* ShortenPaddleIcon for every number of balls on the paddle up to
\* MaxOnPaddle.
C37_MagneticBalls ==
  /\ level.game_is_active => holds_the_magnetic_balls(World)
  /\ \A n \in 0..MaxOnPaddle,
        icon \in {"InvinciBallIcon", "ShortenPaddleIcon"} :
        holds_the_magnetic_balls(activate_icon_property(with_balls_on_paddle(n, 3), icon))

\* two balls on the paddle when the InvinciBallIcon is caught: one is made
\* a MagneticInviciBall, both are on the list
C37_Witness ==
  /\ level.game_is_active
  /\ <<"InvinciBallIcon", 0>> \in Range(calls)
  /\ Len(paddle.magnetic_ball_list) = 2 /\ Len(ball_list) = 2
  /\ \E b \in Range(paddle.magnetic_ball_list) : balls[b].class = "MagneticInviciBall"

(***************************************************************************)
(* SpecScore: the pauses that end a level.  The level of SpecLevel has     *)
(* been played to the frame that ends it: some of its bricks are broken,   *)
(* a frame may have been drawn, and the game is over (the last ball is     *)
(* lost) or the level is complete (no brick is left).  The window calls    *)
(* on_update and on_draw of the view it shows in every frame and time      *)
(* passes from frame to frame: the draws go on while they change           *)
(* something, the updates while they let time pass or end a pause.         *)
(***************************************************************************)
\* the bricks of the level after the first hit of each brick of hits
broken(hits) ==
  [b \in DOMAIN LevelGrid |->
     IF b \in Range(hits)
     THEN [LevelGrid[b] EXCEPT !.has_been_hit = TRUE, !.cur_texture_index = 1,
                               !.icon = "None"]
     ELSE LevelGrid[b]]

\* the state in which the level ends: with a brick left, the last ball of
\* the last life is lost and lose_a_life has run; with no brick left,
\* level_is_complete has run with the lives that are left; the icons of the
\* bricks are in flight; on_draw has been called once or not at all
InitScore ==
  \E lives \in 1..MaxLives, hits \in DistinctSeqs(DOMAIN LevelGrid, 2), drawn \in BOOLEAN :
     LET over == Len(hits) < Len(LevelGrid)
         score == Sum([b \in Range(hits) |-> LevelGrid[b].score], Range(hits))
     IN /\ over => lives = 1
        /\ window = [NewWindow EXCEPT !.lives = IF over THEN 0 ELSE lives,
                                      !.score = score,
                                      !.display_score = IF drawn /\ score > 0 THEN 5 ELSE 0]
        /\ level = IF over THEN [NewLevel EXCEPT !.game_over = TRUE]
                   ELSE [NewLevel EXCEPT !.level_complete = TRUE,
                                         !.bonus_score = lives * 100]
        /\ paddle = Paddle("NormalPaddle")
        /\ balls = IF over THEN <<>> ELSE [i \in {1} |-> Ball("NormalBall", TRUE)]
        /\ ball_list = IF over THEN <<>> ELSE <<1>>
        /\ bricks = broken(hits)
        /\ brick_list = DOMAIN LevelGrid \ Range(hits)
        /\ breakable_brick_list = DOMAIN LevelGrid \ Range(hits)
        /\ icon_list = [k \in 1..Len(hits) |-> LevelGrid[hits[k]].icon]
        /\ bullet_list = 0
        /\ calls = <<>>

\* the state after an on_update of the pause that leaves the world w,
\* within the bounds: the pause leaves the bricks, the icons and the bullets
CommitPause(w) ==
  /\ w.level.elapsed_time <= MaxTime
  /\ window' = w.window
  /\ level' = w.level
  /\ paddle' = w.paddle
  /\ balls' = w.balls
  /\ ball_list' = w.ball_list
  /\ calls' = w.calls
  /\ UNCHANGED <<bricks, brick_list, breakable_brick_list, icon_list, bullet_list>>

\* Level.on_update while the window shows the level and the game is not
\* active: no ball, icon, bullet or brick is updated
ScoreTick ==
  /\ window.view = "Level"
  /\ ~level.game_is_active
  /\ \E dt \in DeltaTimes(World),
        qualifies \in (IF level.game_over THEN BOOLEAN ELSE {FALSE}) :
        CommitPause(Level_on_update(World, [TickInput(<<>>, <<>>) EXCEPT
                                               !.delta_time = dt, !.qualifies = qualifies]))

\* an on_update with which time passes or a pause ends
ScoreTickOn ==
  /\ ScoreTick
  /\ \/ level'.elapsed_time > level.elapsed_time
     \/ window'.view # window.view
     \/ level'.load_next_level # level.load_next_level

\* one call of Level.on_draw while the window shows the level
ScoreDraw ==
  /\ window.view = "Level"
  /\ LET w == Level_on_draw(World)
     IN /\ window' = w.window
        /\ level' = w.level
        /\ calls' = w.calls
  /\ UNCHANGED <<paddle, balls, ball_list, bricks, brick_list, breakable_brick_list,
                 icon_list, bullet_list>>

NextScore == ScoreTick \/ ScoreDraw \/ LevelKey

SpecScore == InitScore /\ [][NextScore]_vars /\ WF_vars(ScoreDraw) /\ WF_vars(ScoreTickOn)

\* C38: display_score <= score and both are multiples of 5; a draw adds 5
\* to a display_score below score and nothing to one that equals it, so the
\* displayed score comes to equal the score without stepping past it; and
\* with that the pause of a game that is over ends with the next view, and
\* the pause of a completed level with load_next_level.
C38_DisplayScore ==
  /\ [](/\ window.display_score <= window.score
        /\ window.display_score % 5 = 0 /\ window.score % 5 = 0
        /\ LET w == DisplayInfoBlock_draw(World)
           IN /\ w.window.score = window.score
              /\ w.window.display_score =
                   IF window.display_score < window.score
                   THEN window.display_score + 5 ELSE window.display_score
              /\ w.window.display_score <= window.score)
  /\ (level.game_over ~> window.view \in {"NameEntryView", "HighScoreView"})
  /\ (level.level_complete ~> level.load_next_level)

\* a game is over with the displayed score behind the score, and the pause
\* has run long enough for the next view
C38_Witness ==
  /\ level.game_over /\ window.view = "Level"
  /\ level.elapsed_time > PAUSE_TIME * 2 + TRANSITION_TIME
  /\ 0 < window.display_score /\ window.display_score < window.score

(***************************************************************************)
(* SpecShoot: a level of two bricks played with the shooter on, so that a  *)
(* bullet can break the last brick in the frame in which the last ball     *)
(* leaves the field.                                                       *)
(***************************************************************************)
ShootGrid ==
  <<Brick("GreyBrick", 1, 3, "None"),
    Brick("GreyBrick", 1, 4, "None")>>

InitShoot ==
  /\ \E lives \in 1..MaxLives : window = [NewWindow EXCEPT !.lives = lives]
  /\ level = NewLevel
  /\ paddle = [Paddle("NormalPaddle") EXCEPT !.activate_shooter = TRUE]
  /\ balls = [i \in {1} |-> Ball("NormalBall", TRUE)]
  /\ ball_list = <<1>>
  /\ bricks = ShootGrid
  /\ brick_list = DOMAIN bricks
  /\ breakable_brick_list = DOMAIN bricks
  /\ icon_list = <<>>
  /\ bullet_list = 0
  /\ calls = <<>>

\* what Bullet.on_update of the first bullet in flight can meet
Shots(w) ==
  IF w.level.game_is_active /\ w.bullet_list > 0
  THEN {<<[hit_list |-> h, out |-> FALSE]>> : h \in HitLists(w)}
       \cup {<<[hit_list |-> <<>>, out |-> TRUE]>>}
  ELSE {<<>>}

\* Level.on_update while the window shows the level
ShootTick ==
  /\ window.view = "Level"
  /\ \E dt \in DeltaTimes(World),
        frames \in (IF level.game_is_active THEN FrameSeqs(World) ELSE {<<>>}),
        shots \in Shots(World),
        qualifies \in (IF level.game_over THEN BOOLEAN ELSE {FALSE}) :
        CommitWithin(
          Level_on_update(World, [TickInput(frames, <<>>) EXCEPT !.delta_time = dt,
                                                                !.shots = shots,
                                                                !.qualifies = qualifies]))

\* SPACE while the window shows the level
ShootKey ==
  /\ window.view = "Level"
  /\ bullet_list < MaxBullets
  /\ Commit(Level_on_key_press(World, "SPACE"))

NextShoot == ShootTick \/ ShootKey \/ LevelDraw

SpecShoot == InitShoot /\ [][NextShoot]_vars

\* the world with n balls on a magnetic paddle that has the shooter on
armed(n) == [with_balls_on_paddle(n, 3) EXCEPT !.paddle.activate_shooter = TRUE]

\* C39: an on_update of the active level that leaves both
\* breakable_brick_list and ball_list empty completes the level
\* (level_complete, not lost_a_life nor game_over) and takes no life; and
\* while lost_a_life, game_over or level_complete is set, SPACE changes
\* nothing: game_is_active stays false, no ball leaves the paddle and no
\* bullet is fired, whatever the paddle holds.
C39_CompleteFirst ==
  /\ [][(/\ level.game_is_active
         /\ breakable_brick_list' = {} /\ ball_list' = <<>>)
        => /\ level'.level_complete /\ ~level'.lost_a_life /\ ~level'.game_over
           /\ window'.lives = window.lives
           /\ <<"Level.lose_a_life", 0>> \notin Range(calls')
           /\ <<"Level.level_is_complete", 0>> \in Range(calls')
       ]_vars
  /\ [](phases(level) # {} =>
          /\ ~level.game_is_active
          /\ Level_on_key_press(World, "SPACE") = World
          /\ \A n \in 0..MaxBalls : Level_on_key_press(armed(n), "SPACE") = armed(n))
  /\ [][phases(level) # {} => ~level'.game_is_active /\ bullet_list' <= bullet_list]_vars

\* the bullet has broken the last brick in the frame that lost the last
\* ball: the level is complete and no life is taken
C39_Witness ==
  /\ level.level_complete /\ ~level.game_over /\ ~level.lost_a_life
  /\ breakable_brick_list = {} /\ ball_list = <<>>
  /\ window.lives = MaxLives
  /\ level.elapsed_time = 0
  /\ <<"Level.level_is_complete", 0>> \in Range(calls)
  /\ <<"window.score +=", 2>> \in Range(calls)

(***************************************************************************)
(* The last life (SpecLevel)                                               *)
(***************************************************************************)
\* the objects of the level that an active on_update updates
objects == <<paddle, balls, ball_list, bricks, brick_list, breakable_brick_list,
             icon_list, bullet_list>>

\* the entries of a call log that an active on_update leaves
updates(log) == {k \in 1..Len(log) :
                   log[k][1] \in {"Ball.on_update", "Brick.update", "Brick.change_properties",
                                  "Level.lose_a_life", "Level.level_is_complete"}}

====
